---------------------------- MODULE Spec2Model ----------------------------
(***************************************************************************)
(* Decision-Maker: the matching-and-scoring pipeline.                      *)
(*                                                                         *)
(* Texts are sequences of one-character strings, so that lower(), split(), *)
(* join() and the substring test `a in b` are computed as Python computes  *)
(* them.  Scores are integers in thousandths (0.70 is 700).                *)
(***************************************************************************)
EXTENDS Integers, Sequences, FiniteSets, TLC

(***************************************************************************)
(* Bounds of the model.                                                    *)
(***************************************************************************)
\* number of evaluate()/analyze() calls made on one engine in one run
MaxCalls == 2
\* number of embedding exchanges that end badly (an error or a malformed reply) in one run
MaxFaults == 3
\* the same, in a run with two threads
MaxFaultsConcurrent == 1
\* the same, in a run of analyze() calls
MaxFaultsAnalyze == 1
\* exchanges that may end badly in a run of scored requests
MaxFaultsScoring == 1
\* the longest gap list handed to _calculate_adherence_score on its own
MaxGaps == 3

(***************************************************************************)
(* Text primitives (Python str).                                           *)
(***************************************************************************)
\* str.lower(), one character
LowerChar(c) ==
    CASE c = "A" -> "a" [] c = "C" -> "c" [] c = "F" -> "f" [] c = "H" -> "h"
      [] c = "K" -> "k" [] c = "L" -> "l" [] c = "P" -> "p" [] c = "R" -> "r" [] c = "T" -> "t"
      [] c = "W" -> "w" [] c = "D" -> "d" [] c = "E" -> "e" [] c = "S" -> "s"
      [] OTHER -> c

\* str.lower()
Lower(s) == [i \in 1..Len(s) |-> LowerChar(s[i])]

\* the substring test  `needle in hay`
Contains(hay, needle) ==
    \E i \in 0..(Len(hay) - Len(needle)) : SubSeq(hay, i + 1, i + Len(needle)) = needle

IsSpace(c) == c \in {" ", "\n", "\t"}

\* str.split(): the maximal runs of non-whitespace characters
RECURSIVE SplitFrom(_, _, _)
SplitFrom(s, i, word) ==
    IF i > Len(s)
    THEN IF word = <<>> THEN <<>> ELSE <<word>>
    ELSE IF IsSpace(s[i])
         THEN (IF word = <<>> THEN <<>> ELSE <<word>>) \o SplitFrom(s, i + 1, <<>>)
         ELSE SplitFrom(s, i + 1, Append(word, s[i]))

Split(s) == SplitFrom(s, 1, <<>>)

\* sep.join(parts)
RECURSIVE Join(_, _)
Join(parts, sep) ==
    IF parts = <<>> THEN <<>>
    ELSE IF Len(parts) = 1 THEN parts[1]
    ELSE parts[1] \o sep \o Join(Tail(parts), sep)

\* [x for x in s if keep(x)]
Filter(s, keep(_)) == SelectSeq(s, keep)

Min(a, b) == IF a < b THEN a ELSE b
Max(a, b) == IF a > b THEN a ELSE b

(***************************************************************************)
(* The knowledge corpus: an immutable ordered list of principles.          *)
(***************************************************************************)
Principle(id, title, tags, values, sub_principles) ==
    [id |-> id, title |-> title, tags |-> tags, related_value_ids |-> values,
     sub_principles |-> sub_principles]

\* "Plan Work", tags due
P1 == Principle(1, <<"P", "l", "a", "n", " ", "W", "o", "r", "k">>,
                <<(<<"d", "u", "e">>)>>, <<"v1">>, <<"1.1", "1.2">>)
\* "Keep Calm", tags calm, rest; listed before the principle with the smaller id
P2 == Principle(3, <<"K", "e", "e", "p", " ", "C", "a", "l", "m">>,
                <<(<<"c", "a", "l", "m">>), (<<"r", "e", "s", "t">>)>>, <<"v1", "v2">>, <<"3.1">>)
\* "Ask For Help", tags help
P3 == Principle(2, <<"A", "s", "k", " ", "F", "o", "r", " ", "H", "e", "l", "p">>,
                <<(<<"h", "e", "l", "p">>)>>, <<"v2">>, <<"2.1">>)
\* "Team", tags Team, work; no sub-principle
P4 == Principle(4, <<"T", "e", "a", "m">>,
                <<(<<"T", "e", "a", "m">>), (<<"w", "o", "r", "k">>)>>, <<>>, <<>>)

principles == <<P1, P2, P3, P4>>

PrincipleIds == {principles[i].id : i \in 1..Len(principles)}

PrincipleById(id) == CHOOSE p \in {principles[i] : i \in 1..Len(principles)} : p.id = id

(***************************************************************************)
(* Situations.                                                             *)
(***************************************************************************)
SituationContext(facts, emotions, stakeholders, constraints) ==
    [facts |-> facts, emotions |-> emotions,
     stakeholders |-> stakeholders, constraints |-> constraints]

NoContext == SituationContext(<<>>, <<>>, <<>>, <<>>)

Situation(id, description, context) ==
    [id |-> id, description |-> description, context |-> context]

\* "due"
S1 == Situation("s1", <<"d", "u", "e">>, NoContext)
\* "Plan team work help calm"
S2 == Situation("s2",
        <<"P", "l", "a", "n", " ", "t", "e", "a", "m", " ", "w", "o", "r", "k", " ",
          "h", "e", "l", "p", " ", "c", "a", "l", "m">>, NoContext)
\* "Rest", with the fact "due" in its context
S3 == Situation("s3", <<"R", "e", "s", "t">>,
        SituationContext(<<(<<"d", "u", "e">>)>>, <<>>, <<>>, <<>>))
\* "x": no principle shares a tag or a title word with it
S4 == Situation("s4", <<"x">>, NoContext)

Situations == {S1, S2, S3, S4}

\* Situation(...) called with the keyword arguments `given` passes validation:
\* id and description are declared Field(...), so the constructor raises
\* ValidationError when one of them is not given, and the description is
\* declared min_length=1
Constructible(given, description) ==
    /\ {"id", "description"} \subseteq given
    /\ Len(description) >= 1

\* the empty description
S0 == Situation("s0", <<>>, NoContext)
\* "late": no principle shares a tag or a title word with it
S5 == Situation("s5", <<"l", "a", "t", "e">>, NoContext)
\* "due left"
S6 == Situation("s6", <<"d", "u", "e", " ", "l", "e", "f", "t">>, NoContext)

\* "ask": a title word of three characters, which is no title keyword
S7 == Situation("s7", <<"a", "s", "k">>, NoContext)

\* the descriptions an HTTP client may send: the endpoints build the Situation
\* from the description alone, with no context
Requests == {S0, S1, S2, S4, S5, S6, S7}

\* SituationContext.get_summary
get_summary(c) ==
    LET sep == <<",", " ">>
        part(label, items) == IF items = <<>> THEN <<>> ELSE <<label \o Join(items, sep)>>
        parts == part(<<"F", "a", "c", "t", "s", ":", " ">>, c.facts)
              \o part(<<"E", "m", "o", "t", "i", "o", "n", "s", ":", " ">>, c.emotions)
              \o part(<<"S", "t", "a", "k", "e", "h", "o", "l", "d", "e", "r", "s", ":", " ">>,
                      c.stakeholders)
              \o part(<<"C", "o", "n", "s", "t", "r", "a", "i", "n", "t", "s", ":", " ">>,
                      c.constraints)
    IN Join(parts, <<" ", "|", " ">>)

\* Situation.get_full_description
get_full_description(s) ==
    LET context_summary == get_summary(s.context)
        parts == <<s.description>>
              \o (IF context_summary # <<>>
                  THEN <<(<<"C", "o", "n", "t", "e", "x", "t", ":", " ">> \o context_summary)>>
                  ELSE <<>>)
    IN Join(parts, <<"\n">>)

(***************************************************************************)
(* PrincipleMatch and the sort used by every matcher.                      *)
(***************************************************************************)
\* match_reason is kept as the strategy that wrote it
PrincipleMatch(id, score, reason) ==
    [principle |-> id, relevance_score |-> score, match_reason |-> reason]

\* an unstable insertion: an equal score goes before the ones already placed
RECURSIVE InsertDesc_Unstable(_, _)
InsertDesc_Unstable(sorted, m) ==
    IF sorted = <<>> THEN <<m>>
    ELSE IF Head(sorted).relevance_score > m.relevance_score
         THEN <<Head(sorted)>> \o InsertDesc_Unstable(Tail(sorted), m)
         ELSE <<m>> \o sorted

\* list.sort(key=relevance_score, reverse=True): stable, descending
RECURSIVE InsertDesc(_, _)
InsertDesc(sorted, m) ==
    IF sorted = <<>> THEN <<m>>
    ELSE IF Head(sorted).relevance_score >= m.relevance_score
         THEN <<Head(sorted)>> \o InsertDesc(Tail(sorted), m)
         ELSE <<m>> \o sorted

RECURSIVE SortFrom(_, _, _)
SortFrom(ms, i, acc) ==
    IF i > Len(ms) THEN acc ELSE SortFrom(ms, i + 1, InsertDesc(acc, ms[i]))

SortDesc(ms) == SortFrom(ms, 1, <<>>)

(***************************************************************************)
(* KeywordMatchingStrategy.match                                           *)
(***************************************************************************)
stop_words ==
    { <<"t", "h", "e">>, <<"a", "n", "d">>, <<"o", "r">>, <<"a">>, <<"a", "n">>,
      <<"t", "o">>, <<"o", "f">>, <<"i", "n">>, <<"f", "o", "r">>,
      <<"w", "i", "t", "h">> }

\* the halving of the keyword score left out
KeywordScore_NoHalving(p, situation_text) ==
    LET matched_tags == Filter(p.tags, LAMBDA tag : Contains(situation_text, Lower(tag)))
        tag_score == IF matched_tags # <<>>
                     THEN Min(600 + Len(matched_tags) * 100, 900) ELSE 0
        title_words == Filter([i \in 1..Len(Split(p.title)) |-> Lower(Split(p.title)[i])],
                              LAMBDA w : w \notin stop_words /\ Len(w) > 3)
        matched_keywords == Filter(title_words, LAMBDA w : Contains(situation_text, w))
        score_accum == tag_score + Min(Len(matched_keywords) * 150, 500)
    IN IF score_accum > 0 THEN Min(score_accum, 1000) ELSE 0

\* the score of one principle against the lower-cased full description (0: dropped)
KeywordScore(p, situation_text) ==
    LET matched_tags == Filter(p.tags, LAMBDA tag : Contains(situation_text, Lower(tag)))
        tag_score == IF matched_tags # <<>>
                     THEN Min(600 + Len(matched_tags) * 100, 900) ELSE 0
        title_words == Filter([i \in 1..Len(Split(p.title)) |-> Lower(Split(p.title)[i])],
                              LAMBDA w : w \notin stop_words /\ Len(w) > 3)
        matched_keywords == Filter(title_words, LAMBDA w : Contains(situation_text, w))
        keyword_score == Min(Len(matched_keywords) * 150, 500)
        keyword_part == IF matched_keywords = <<>> THEN 0
                        ELSE IF matched_tags # <<>> THEN keyword_score \div 2
                        ELSE keyword_score
        score_accum == tag_score + keyword_part
    IN IF score_accum > 0 THEN Min(score_accum, 1000) ELSE 0

RECURSIVE KeywordCollect(_, _)
KeywordCollect(ps, situation_text) ==
    IF ps = <<>> THEN <<>>
    ELSE LET s == KeywordScore(Head(ps), situation_text)
         IN (IF s > 0 THEN <<PrincipleMatch(Head(ps).id, s, "keyword")>> ELSE <<>>)
            \o KeywordCollect(Tail(ps), situation_text)

KeywordMatch(situation, ps) ==
    SortDesc(KeywordCollect(ps, Lower(get_full_description(situation))))

(***************************************************************************)
(* Embedding payloads.  A provider reply that passes `if embedding:` is    *)
(* stored as it came: a numeric vector, or any other truthy JSON value     *)
(* (here a list of two strings).  None is the empty payload.               *)
(***************************************************************************)
Vector(v) == [numeric |-> TRUE, v |-> v]
Malformed == [numeric |-> FALSE, v |-> <<0, 0>>]
None == [numeric |-> FALSE, v |-> <<>>]

\* the truthiness test left out: every return value counts as a vector
Truthy_Always(payload) == TRUE

\* Python truthiness of an embed_text return value
Truthy(payload) == payload.v # <<>>

\* the text embedded for a principle: f"{p.title}. Keywords: {', '.join(p.tags)}"
PrincipleText(p) ==
    p.title \o <<".", " ", "K", "e", "y", "w", "o", "r", "d", "s", ":", " ">>
            \o Join(p.tags, <<",", " ">>)

\* what the primary backend (2 dimensions) answers for a text when it answers well
PrimaryVector(text) ==
    CASE text = PrincipleText(P1) -> <<1, 0>>
      [] text = PrincipleText(P2) -> <<4, 3>>
      [] text = PrincipleText(P3) -> <<3, 4>>
      [] text = PrincipleText(P4) -> <<0, 1>>
      [] text = S1.description -> <<4, 3>>
      [] text = S2.description -> <<3, 4>>
      [] text = S3.description -> <<1, 0>>
      [] OTHER -> <<0, 1>>

\* what the secondary backend (3 dimensions) answers for a text when it answers well
SecondaryVector(text) ==
    CASE text = PrincipleText(P1) -> <<0, 1, 0>>
      [] text = PrincipleText(P2) -> <<3, 4, 0>>
      [] text = PrincipleText(P3) -> <<4, 3, 0>>
      [] text = PrincipleText(P4) -> <<1, 0, 0>>
      [] text = S3.description -> <<4, 3, 0>>
      [] text = S4.description -> <<3, 4, 0>>
      [] OTHER -> <<1, 0, 0>>

\* the ways one HTTP exchange with a backend can end: an exception or a falsy
\* payload ("error"), a numeric vector ("ok"), a truthy payload that is no vector
Responses == {"error", "ok", "malformed"}

ProviderPayload(provider, text, response) ==
    CASE response = "error" -> None
      [] response = "malformed" -> Malformed
      [] response = "ok" -> Vector(IF provider = "gemini" THEN PrimaryVector(text)
                                   ELSE SecondaryVector(text))

(***************************************************************************)
(* SemanticMatchingStrategy                                                *)
(***************************************************************************)
RECURSIVE SumSeq(_)
SumSeq(s) == IF s = <<>> THEN 0 ELSE Head(s) + SumSeq(Tail(s))

Dot(a, b) == SumSeq([i \in 1..Len(a) |-> a[i] * b[i]])

\* math.sqrt on the sums of squares the backends' vectors have (perfect squares)
Sqrt(n) == CHOOSE r \in 0..n : r * r = n

\* _cosine_similarity raises (TypeError) when it multiplies and sums non-numbers
cosine_raises(v1, v2) ==
    /\ Truthy(v1) /\ Truthy(v2) /\ Len(v1.v) = Len(v2.v)
    /\ ~(v1.numeric /\ v2.numeric)

\* _cosine_similarity, in thousandths
cosine_similarity(v1, v2) ==
    IF ~Truthy(v1) \/ ~Truthy(v2) \/ Len(v1.v) # Len(v2.v) THEN 0
    ELSE LET dot_product == Dot(v1.v, v2.v)
             norm_a == Sqrt(Dot(v1.v, v1.v))
             norm_b == Sqrt(Dot(v2.v, v2.v))
         IN IF norm_a = 0 \/ norm_b = 0 THEN 0
            ELSE (dot_product * 1000) \div (norm_a * norm_b)

\* the acceptance threshold of a semantic match: score > 0.65
SemanticThreshold == 650

(***************************************************************************)
(* DecisionEngine.evaluate: the aggregation of the two match lists.        *)
(***************************************************************************)
\* the number of matches kept: final_matches[:3]
TopK == 3

IndexOf(ms, id) == CHOOSE i \in 1..Len(ms) : ms[i].principle = id

HasId(ms, id) == \E i \in 1..Len(ms) : ms[i].principle = id

\* the merge without the comparison: a keyword match always replaces the entry
MergeOne_Overwrite(combined, m) ==
    IF HasId(combined, m.principle)
    THEN [combined EXCEPT ![IndexOf(combined, m.principle)] = m]
    ELSE Append(combined, m)

\* combined_map after one keyword match m: the higher score wins, a new id is appended
MergeOne(combined, m) ==
    IF HasId(combined, m.principle)
    THEN LET i == IndexOf(combined, m.principle)
         IN IF m.relevance_score > combined[i].relevance_score
            THEN [combined EXCEPT ![i] = m] ELSE combined
    ELSE Append(combined, m)

RECURSIVE MergeAll(_, _)
MergeAll(combined, keyword_matches) ==
    IF keyword_matches = <<>> THEN combined
    ELSE MergeAll(MergeOne(combined, Head(keyword_matches)), Tail(keyword_matches))

\* list(combined_map.values()), sorted: the semantic matches first, in dict order
Combine(matches, keyword_matches) == SortDesc(MergeAll(matches, keyword_matches))

\* the slice taken from the wrong end
Truncate_Tail(final_matches) ==
    SubSeq(final_matches, Max(1, Len(final_matches) - TopK + 1), Len(final_matches))

\* the slice left out
Truncate_None(final_matches) == final_matches

\* final_matches[:3]
Truncate(final_matches) == SubSeq(final_matches, 1, Min(Len(final_matches), TopK))


(***************************************************************************)
(* DecisionEngine.evaluate: SOPs, value alignment, confidence, metadata.   *)
(***************************************************************************)
\* an SOP with its triggers, each trigger a list of keywords
SOP(id, triggers) == [id |-> id, triggers |-> triggers]

\* one trigger, keyword "Help"
SOP1 == SOP(1, << <<(<<"H", "e", "l", "p">>)>> >>)
\* two triggers, keywords "Late" and "Del", "Left"
SOP2 == SOP(2, << <<(<<"L", "a", "t", "e">>)>>,
                  <<(<<"D", "e", "l">>), (<<"L", "e", "f", "t">>)>> >>)

sops == <<SOP1, SOP2>>

\* SOPTrigger.matches_situation
matches_situation(trigger, situation_text) ==
    LET situation_lower == Lower(situation_text)
    IN \E i \in 1..Len(trigger) : Contains(situation_lower, Lower(trigger[i]))

\* SOP.check_triggers
check_triggers(sop, situation_text) ==
    \E i \in 1..Len(sop.triggers) : matches_situation(sop.triggers[i], situation_text)

\* DecisionEngine.get_applicable_sops: the ids of the triggered SOPs, in corpus order
get_applicable_sops(s) ==
    LET situation_text == get_full_description(s)
        triggered == Filter(sops, LAMBDA sop : check_triggers(sop, situation_text))
    IN [i \in 1..Len(triggered) |-> triggered[i].id]

\* the divisor of the alignment normalisation: total_weight / 3.0
AlignmentDivisor == 3

\* how often a principle lists the value id
Listed(p, val_id) ==
    Len(SelectSeq(p.related_value_ids, LAMBDA v : v = val_id))

\* _calculate_alignment's value_scores: for each value id some match's principle
\* lists, the sum of the relevance scores of the matches that list it
ValueScores(matches) ==
    LET listed == UNION {{PrincipleById(matches[i].principle).related_value_ids[j] :
                             j \in 1..Len(PrincipleById(matches[i].principle).related_value_ids)} :
                         i \in 1..Len(matches)}
    IN [val_id \in listed |->
           SumSeq([i \in 1..Len(matches) |->
                      matches[i].relevance_score
                          * Listed(PrincipleById(matches[i].principle), val_id)])]

\* the per-value weights cut at 1.0
calculate_alignment_Normalised(matches) ==
    LET weights == [i \in 1..Len(matches) |->
                       matches[i].relevance_score
                           * Len(PrincipleById(matches[i].principle).related_value_ids)]
        total_weight == SumSeq(weights)
        value_scores == [v \in DOMAIN ValueScores(matches) |-> Min(ValueScores(matches)[v], 1000)]
    IN IF matches = <<>> THEN [num |-> 0, den |-> AlignmentDivisor, value_scores |-> <<>>]
       ELSE IF total_weight <= 0
       THEN [num |-> 0, den |-> AlignmentDivisor, value_scores |-> value_scores]
       ELSE [num |-> Min(total_weight, 1000 * AlignmentDivisor), den |-> AlignmentDivisor,
             value_scores |-> value_scores]

\* DecisionEngine._calculate_alignment: overall_score as the fraction num/den of
\* thousandths, so that the division by 3.0 loses nothing
calculate_alignment(matches) ==
    LET weights == [i \in 1..Len(matches) |->
                       matches[i].relevance_score
                           * Len(PrincipleById(matches[i].principle).related_value_ids)]
        total_weight == SumSeq(weights)
    IN IF matches = <<>> THEN [num |-> 0, den |-> AlignmentDivisor, value_scores |-> <<>>]
       ELSE IF total_weight <= 0
       THEN [num |-> 0, den |-> AlignmentDivisor, value_scores |-> ValueScores(matches)]
       ELSE [num |-> Min(total_weight, 1000 * AlignmentDivisor), den |-> AlignmentDivisor,
             value_scores |-> ValueScores(matches)]

\* round(x, 2) of a float given in thousandths. A value half way between two
\* hundredths goes by its binary float: a multiple of 1/8 is exact and rounds
\* half to even (0.875 -> 0.88); the other ties of this arithmetic (0.7 + 0.075,
\* 0.9 + 0.075, a score + 0.1) are floats just below the decimal and round down.
Round2(x, exact) ==
    LET low == x - (x % 10)
    IN IF x % 10 < 5 THEN low
       ELSE IF x % 10 > 5 THEN low + 10
       ELSE IF exact /\ x % 125 = 0
            THEN (IF (low \div 10) % 2 = 0 THEN low ELSE low + 10)
            ELSE low

\* the SOP floor set at 0.5
calculate_confidence_LowFloor(matches, triggered) ==
    IF matches = <<>> /\ triggered = <<>> THEN 100
    ELSE LET base == IF matches # <<>> THEN matches[1].relevance_score ELSE 0
         IN IF triggered # <<>> THEN Round2(Max(base, 500), TRUE)
            ELSE IF Len(matches) > 1 THEN Round2(Min(base + 100, 1000), FALSE)
            ELSE Round2(base, TRUE)

\* the early return for nothing matched and nothing triggered left out
calculate_confidence_NoFloor(matches, triggered) ==
    LET base == IF matches # <<>> THEN matches[1].relevance_score ELSE 0
    IN IF triggered # <<>> THEN Round2(Max(base, 800), TRUE)
       ELSE IF Len(matches) > 1 THEN Round2(Min(base + 100, 1000), FALSE)
       ELSE Round2(base, TRUE)

\* the SOP boost added to the base instead of raising it
calculate_confidence_BoostAdded(matches, triggered) ==
    IF matches = <<>> /\ triggered = <<>> THEN 100
    ELSE LET base == IF matches # <<>> THEN matches[1].relevance_score ELSE 0
         IN IF triggered # <<>> THEN Round2(Min(base + 800, 1000), TRUE)
            ELSE IF Len(matches) > 1 THEN Round2(Min(base + 100, 1000), FALSE)
            ELSE Round2(base, TRUE)

\* the bonus for several matches without its cap
calculate_confidence_Uncapped(matches, triggered) ==
    IF matches = <<>> /\ triggered = <<>> THEN 100
    ELSE LET base == IF matches # <<>> THEN matches[1].relevance_score ELSE 0
         IN IF triggered # <<>> THEN Round2(Max(base, 800), TRUE)
            ELSE IF Len(matches) > 1 THEN Round2(base + 100, FALSE)
            ELSE Round2(base, TRUE)

\* DecisionEngine._calculate_confidence, in thousandths
calculate_confidence(matches, triggered) ==
    IF matches = <<>> /\ triggered = <<>> THEN 100
    ELSE LET base == IF matches # <<>> THEN matches[1].relevance_score ELSE 0
         IN IF triggered # <<>> THEN Round2(Max(base, 800), TRUE)
            ELSE IF Len(matches) > 1 THEN Round2(Min(base + 100, 1000), FALSE)
            ELSE Round2(base, TRUE)

\* the lines _generate_reasoning collects in rec_parts for the first i matches
RECURSIVE PrincipleParts(_, _)
PrincipleParts(matches, i) ==
    IF i = 0 THEN <<>>
    ELSE LET p == PrincipleById(matches[i].principle)
         IN PrincipleParts(matches, i - 1)
            \o <<[kind |-> "principle", number |-> i, id |-> p.id, text |-> p.title]>>
            \o (IF p.sub_principles # <<>>
                THEN <<[kind |-> "guidance", number |-> i, id |-> p.id,
                        text |-> p.sub_principles[1]]>>
                ELSE <<>>)

\* _generate_reasoning: the recommendation, as the list of lines joined by "\n"
generate_recommendation(matches, triggered) ==
    (IF matches # <<>>
     THEN PrincipleParts(matches, IF Len(matches) < 3 THEN Len(matches) ELSE 3)
     ELSE <<[kind |-> "review", number |-> 0, id |-> 0, text |-> <<>>]>>)
    \o (IF triggered # <<>>
        THEN <<[kind |-> "immediate_action", number |-> 0, id |-> 0, text |-> triggered]>>
        ELSE <<>>)

\* the MatchingMetadata evaluate builds: the same constants in every call
MatchingMetadata ==
    [strategies_attempted |-> <<"semantic", "keyword">>,
     strategies_succeeded |-> <<"semantic", "keyword">>,
     llm_provider_used |-> "gemini",
     fallback_triggered |-> FALSE]


(***************************************************************************)
(* The state of one process: one DecisionEngine, its EmbeddingService and  *)
(* SemanticMatchingStrategy, and the threads that call it.                 *)
(***************************************************************************)
VARIABLES
    api_key,               \* EmbeddingService.api_key: GEMINI_API_KEY is set
    ds_key,                \* DEEPSEEK_API_KEY: "", "PLACEHOLDER" or "key"
    cache,                 \* EmbeddingService._cache: text -> payload
    principle_embeddings,  \* SemanticMatchingStrategy.principle_embeddings: id -> payload
    calls,                 \* calls of the public methods and requests started so far
    embeds,                \* history: text -> number of embed_text(text) calls
    faults,                \* environment: embedding exchanges that ended badly so far
    budget,                \* environment: how many of them may end badly in this run
    pc,                    \* per thread: where the thread is in the code
    op,                    \* per thread: the public method it is running
    situation,             \* per thread: the argument of that method
    batch,                 \* per thread: embed_batch's argument and the list it builds
    idx,                   \* per thread: the position of the loop over the principles
    ran_setup,             \* per thread: history, this call entered the setup loop
    etext,                 \* per thread: embed_text's argument
    eret,                  \* per thread: embed_text's caller: "setup", "situation", "batch"
    evec,                  \* per thread: embed_text's return value
    log,                   \* per thread: history, the HTTP exchanges of this embed_text
    sit_vec,               \* per thread: match's sit_vec
    result,                \* per thread: what evaluate returned, or that it raised
    alog,                  \* per thread: history, the links of analyze's chain that ran
    report,                \* per thread: what analyze returned, or that it raised
    start,                 \* history: the cache as it was when the running call began
    past                   \* history: the evaluate call that returned last

engine_vars ==
    <<api_key, ds_key, cache, principle_embeddings, calls, embeds, faults, budget>>
thread_vars ==
    <<pc, op, situation, batch, idx, ran_setup, etext, eret, evec, log, sit_vec, result, alog, report>>
history_vars == <<start, past>>
vars == <<engine_vars, thread_vars, history_vars>>

Threads == {1, 2}

Count(f, k) == IF k \in DOMAIN f THEN f[k] ELSE 0
Incr(f, k) == (k :> (Count(f, k) + 1)) @@ f

NoResult ==
    [status |-> "none", matches |-> <<>>, keyword_matches |-> <<>>,
     final_matches |-> <<>>, applicable_principles |-> <<>>,
     triggered_sops |-> <<>>, value_alignment |-> [num |-> 0, den |-> AlignmentDivisor, value_scores |-> <<>>],
     confidence |-> 0, recommendation |-> <<>>,
     matching_metadata |-> MatchingMetadata]

\* no embed_batch call
NoBatch == [texts |-> <<>>, vectors |-> <<>>]

NoReport ==
    [status |-> "none", gaps |-> <<>>, lessons |-> <<>>, principle_adherence_score |-> 0]

\* no evaluate call has returned yet
NoPast == [set |-> FALSE, situation |-> <<>>, start |-> <<>>, cache |-> <<>>, result |-> NoResult]

\* the threads before any call, but for thread 1, which stands at first_pc in
\* first_op with one of first_reports
Parked(first_pc, first_op, first_reports) ==
    /\ calls = 0
    /\ faults = 0
    /\ pc = [t \in Threads |-> IF t = 1 THEN first_pc ELSE "idle"]
    /\ op = [t \in Threads |-> IF t = 1 THEN first_op ELSE "none"]
    /\ report \in {[t \in Threads |-> IF t = 1 THEN r ELSE NoReport] : r \in first_reports}
    /\ situation = [t \in Threads |-> S1]
    /\ batch = [t \in Threads |-> NoBatch]
    /\ idx = [t \in Threads |-> 0]
    /\ ran_setup = [t \in Threads |-> FALSE]
    /\ etext = [t \in Threads |-> <<>>]
    /\ eret = [t \in Threads |-> "none"]
    /\ evec = [t \in Threads |-> None]
    /\ log = [t \in Threads |-> <<>>]
    /\ sit_vec = [t \in Threads |-> None]
    /\ result = [t \in Threads |-> NoResult]
    /\ alog = [t \in Threads |-> <<>>]

\* DecisionEngine.__init__ and the construction of its collaborators, under an
\* environment that sets each credential or leaves it out
Construct(api_keys, ds_keys, max_faults) ==
    /\ api_key \in api_keys
    /\ ds_key \in ds_keys
    /\ budget = max_faults
    /\ cache = <<>>
    /\ principle_embeddings = <<>>
    /\ start = <<>>
    /\ past = NoPast
    /\ embeds = <<>>
    /\ Parked("idle", "none", {NoReport})

Init == Construct(BOOLEAN, {"", "key"}, MaxFaults)

\* the local variables of a call, before it starts and after it returned
Locals(t) ==
    /\ idx' = [idx EXCEPT ![t] = 0]
    /\ ran_setup' = [ran_setup EXCEPT ![t] = FALSE]
    /\ etext' = [etext EXCEPT ![t] = <<>>]
    /\ eret' = [eret EXCEPT ![t] = "none"]
    /\ evec' = [evec EXCEPT ![t] = None]
    /\ log' = [log EXCEPT ![t] = <<>>]
    /\ sit_vec' = [sit_vec EXCEPT ![t] = None]
    /\ alog' = [alog EXCEPT ![t] = <<>>]

\* a thread enters a public method with a valid situation
Begin(t, method, s) ==
    /\ pc[t] = "idle"
    /\ calls < MaxCalls
    /\ calls' = calls + 1
    /\ op' = [op EXCEPT ![t] = method]
    /\ situation' = [situation EXCEPT ![t] = s]
    /\ batch' = [batch EXCEPT ![t] = NoBatch]
    /\ pc' = [pc EXCEPT ![t] = "setup"]
    /\ result' = [result EXCEPT ![t] = NoResult]
    /\ report' = [report EXCEPT ![t] = NoReport]
    /\ Locals(t)
    /\ UNCHANGED <<api_key, ds_key, cache, principle_embeddings, embeds, faults,
                   budget>>

\* DecisionEngine.evaluate(situation) is called
evaluate(t) == \E s \in Situations : Begin(t, "evaluate", s)

\* GET /analyze/stream: the worker of run_in_executor runs
\* `engine.evaluate(Situation(description=description))`; the constructor is
\* given no id and raises ValidationError, so evaluate is not entered
analysis_generator(t) ==
    \E s \in Requests :
        IF Constructible({"description"}, s.description) THEN Begin(t, "evaluate", s)
        ELSE /\ pc[t] = "idle"
             /\ calls < MaxCalls
             /\ calls' = calls + 1
             /\ op' = [op EXCEPT ![t] = "analysis_generator"]
             /\ result' = [result EXCEPT ![t] = [NoResult EXCEPT !.status = "rejected"]]
             /\ UNCHANGED <<api_key, ds_key, cache, principle_embeddings, embeds, faults,
                            budget, pc, situation, batch, idx, ran_setup, etext, eret, evec,
                            log, sit_vec, alog, report>>

\* POST /analyze: Situation(id=str(uuid.uuid4()), description=request.description)
\* is handed to evaluate; the constructor raises ValidationError for an empty
\* description, evaluate is not entered and the request ends with HTTP 500
analyze_situation(t) ==
    \E s \in Requests :
        IF Constructible({"id", "description"}, s.description) THEN Begin(t, "evaluate", s)
        ELSE /\ pc[t] = "idle"
             /\ calls < MaxCalls
             /\ calls' = calls + 1
             /\ op' = [op EXCEPT ![t] = "analyze_situation"]
             /\ situation' = [situation EXCEPT ![t] = s]
             /\ result' = [result EXCEPT ![t] = [NoResult EXCEPT !.status = "rejected"]]
             /\ UNCHANGED <<api_key, ds_key, cache, principle_embeddings, embeds, faults,
                            budget, pc, batch, idx, ran_setup, etext, eret, evec, log,
                            sit_vec, alog, report>>

\* the setup skipped only when every principle has its vector
SetupGuard_Complete(embeddings) == DOMAIN embeddings = PrincipleIds

\* the early return left out: every match call embeds the corpus
SetupGuard_Never(embeddings) == FALSE

\* _run_embedding_setup: `if self.principle_embeddings: return`
SetupGuard(embeddings) == embeddings # <<>>

run_embedding_setup(t) ==
    /\ pc[t] = "setup"
    /\ IF SetupGuard(principle_embeddings)
       THEN /\ pc' = [pc EXCEPT ![t] = "after_setup"]
            /\ UNCHANGED <<idx, ran_setup>>
       ELSE /\ pc' = [pc EXCEPT ![t] = "setup_loop"]
            /\ idx' = [idx EXCEPT ![t] = 1]
            /\ ran_setup' = [ran_setup EXCEPT ![t] = TRUE]
    /\ UNCHANGED <<engine_vars, op, situation, batch, etext, eret, evec, log, sit_vec, result,
                   alog, report>>

\* _run_embedding_setup: `for p in principles:` up to the call of embed_text
setup_loop(t) ==
    /\ pc[t] = "setup_loop"
    /\ IF idx[t] > Len(principles)
       THEN /\ pc' = [pc EXCEPT ![t] = "after_setup"]
            /\ UNCHANGED <<etext, eret>>
       ELSE /\ pc' = [pc EXCEPT ![t] = "embed"]
            /\ etext' = [etext EXCEPT ![t] = PrincipleText(principles[idx[t]])]
            /\ eret' = [eret EXCEPT ![t] = "setup"]
    /\ UNCHANGED <<engine_vars, op, situation, batch, idx, ran_setup, evec, log, sit_vec, result,
                   alog, report>>

\* the cache lookup left out
CacheHit_Never(c, text) == FALSE

\* embed_text: `if text in self._cache`
CacheHit(c, text) == text \in DOMAIN c

\* embed_text: the cache lookup and the choice of the first backend
embed_text(t) ==
    /\ pc[t] = "embed"
    /\ embeds' = Incr(embeds, etext[t])
    /\ log' = [log EXCEPT ![t] = <<>>]
    /\ IF CacheHit(cache, etext[t])
       THEN /\ evec' = [evec EXCEPT ![t] = cache[etext[t]]]
            /\ pc' = [pc EXCEPT ![t] = "embed_return"]
       ELSE /\ evec' = [evec EXCEPT ![t] = None]
            /\ pc' = [pc EXCEPT ![t] = IF api_key THEN "gemini" ELSE "deepseek"]
    /\ UNCHANGED <<api_key, ds_key, cache, principle_embeddings, calls,
                   faults, budget, op, situation, batch, idx, ran_setup, etext, eret, sit_vec, result,
                   alog, report>>

\* the store left out: nothing is ever cached
CacheStore_Never(c, text, payload) == c

\* the cache after a backend answered: only a truthy payload is stored
CacheStore(c, text, payload) == IF Truthy(payload) THEN (text :> payload) @@ c ELSE c

\* the environment: one HTTP exchange ends with `response`
Exchange(response) ==
    /\ response # "ok" => faults < budget
    /\ faults' = IF response = "ok" THEN faults ELSE faults + 1

\* the early return left out: DeepSeek is asked whatever Gemini answered
AfterGemini_AlwaysFallback(payload) == "deepseek"

\* embed_text after the exchange with Gemini: `if embedding: ... return embedding`,
\* otherwise on to _embed_with_deepseek
AfterGemini(payload) == IF Truthy(payload) THEN "embed_return" ELSE "deepseek"

\* embed_text: the exchange with Gemini
embed_with_gemini(t) ==
    /\ pc[t] = "gemini"
    /\ \E response \in Responses :
         LET payload == ProviderPayload("gemini", etext[t], response)
         IN /\ Exchange(response)
            /\ log' = [log EXCEPT ![t] = Append(@, [provider |-> "gemini", response |-> response])]
            /\ cache' = CacheStore(cache, etext[t], payload)
            /\ evec' = [evec EXCEPT ![t] = payload]
            /\ pc' = [pc EXCEPT ![t] = AfterGemini(payload)]
    /\ UNCHANGED <<api_key, ds_key, principle_embeddings, calls, embeds, budget,
                   op, situation, batch, idx, ran_setup, etext, eret, sit_vec, result, alog, report>>

\* _embed_with_deepseek
embed_with_deepseek(t) ==
    /\ pc[t] = "deepseek"
    /\ IF ds_key = ""
       THEN /\ evec' = [evec EXCEPT ![t] = None]
            /\ UNCHANGED <<faults, log, cache>>
       ELSE \E response \in Responses :
              LET payload == ProviderPayload("deepseek", etext[t], response)
              IN /\ Exchange(response)
                 /\ log' = [log EXCEPT ![t] =
                               Append(@, [provider |-> "deepseek", response |-> response])]
                 /\ cache' = CacheStore(cache, etext[t], payload)
                 /\ evec' = [evec EXCEPT ![t] = payload]
    /\ pc' = [pc EXCEPT ![t] = "embed_return"]
    /\ UNCHANGED <<api_key, ds_key, principle_embeddings, calls, embeds, budget,
                   op, situation, batch, idx, ran_setup, etext, eret, sit_vec, result, alog, report>>

\* principle_embeddings after `if vec: self.principle_embeddings[p.id] = vec`
StoreEmbedding(embeddings, id, vec) == IF Truthy(vec) THEN (id :> vec) @@ embeddings ELSE embeddings

\* embed_text returns to its caller
embed_return(t) ==
    /\ pc[t] = "embed_return"
    /\ IF eret[t] = "setup"
       THEN /\ principle_embeddings' =
                  StoreEmbedding(principle_embeddings, principles[idx[t]].id, evec[t])
            /\ idx' = [idx EXCEPT ![t] = @ + 1]
            /\ pc' = [pc EXCEPT ![t] = "setup_loop"]
            /\ UNCHANGED <<sit_vec, batch>>
       ELSE IF eret[t] = "batch"
       THEN /\ batch' = [batch EXCEPT ![t].vectors = Append(@, evec[t])]
            /\ pc' = [pc EXCEPT ![t] = "batch_loop"]
            /\ UNCHANGED <<principle_embeddings, idx, sit_vec>>
       ELSE /\ sit_vec' = [sit_vec EXCEPT ![t] = evec[t]]
            /\ pc' = [pc EXCEPT ![t] = "score"]
            /\ UNCHANGED <<principle_embeddings, idx, batch>>
    /\ UNCHANGED <<api_key, ds_key, cache, calls, embeds, faults, budget,
                   op, situation, ran_setup, etext, eret, evec, log, result, alog, report>>

\* SemanticMatchingStrategy.match after the setup: `if not self.principle_embeddings`
match_after_setup(t) ==
    /\ pc[t] = "after_setup"
    /\ IF principle_embeddings = <<>>
       THEN /\ result' = [result EXCEPT ![t].matches = <<>>]
            /\ pc' = [pc EXCEPT ![t] = "combine"]
            /\ UNCHANGED <<etext, eret>>
       ELSE /\ etext' = [etext EXCEPT ![t] = situation[t].description]
            /\ eret' = [eret EXCEPT ![t] = "situation"]
            /\ pc' = [pc EXCEPT ![t] = "embed"]
            /\ UNCHANGED result
    /\ UNCHANGED <<engine_vars, op, situation, batch, idx, ran_setup, evec, log, sit_vec, alog, report>>

\* SemanticMatchingStrategy.match: `if not sit_vec`, then `matches = []`
match_score(t) ==
    /\ pc[t] = "score"
    /\ IF ~Truthy(sit_vec[t])
       THEN /\ result' = [result EXCEPT ![t].matches = <<>>]
            /\ pc' = [pc EXCEPT ![t] = "combine"]
            /\ UNCHANGED idx
       ELSE /\ result' = [result EXCEPT ![t].matches = <<>>]
            /\ idx' = [idx EXCEPT ![t] = 1]
            /\ pc' = [pc EXCEPT ![t] = "score_loop"]
    /\ UNCHANGED <<engine_vars, op, situation, batch, ran_setup, etext, eret, evec, log, sit_vec,
                   alog, report>>

\* SemanticMatchingStrategy.match: `for p in principles:` with the test
\* `if p.id not in self.principle_embeddings: continue`, and after the last
\* principle the sort of the matches collected
score_loop(t) ==
    /\ pc[t] = "score_loop"
    /\ IF idx[t] > Len(principles)
       THEN /\ result' = [result EXCEPT ![t].matches = SortDesc(@)]
            /\ pc' = [pc EXCEPT ![t] = "combine"]
            /\ UNCHANGED idx
       ELSE IF principles[idx[t]].id \notin DOMAIN principle_embeddings
       THEN /\ idx' = [idx EXCEPT ![t] = @ + 1]
            /\ UNCHANGED <<pc, result>>
       ELSE /\ pc' = [pc EXCEPT ![t] = "score_read"]
            /\ UNCHANGED <<idx, result>>
    /\ UNCHANGED <<engine_vars, op, situation, batch, ran_setup, etext, eret, evec, log, sit_vec,
                   alog, report>>

\* SemanticMatchingStrategy.match: `p_vec = self.principle_embeddings[p.id]`, the
\* similarity and the threshold, for the principle the loop stands at
score_read(t) ==
    /\ pc[t] = "score_read"
    /\ LET p == principles[idx[t]]
           p_vec == principle_embeddings[p.id]
           score == cosine_similarity(sit_vec[t], p_vec)
       IN IF cosine_raises(sit_vec[t], p_vec)
          THEN /\ result' = [result EXCEPT ![t].status = "raised"]
               /\ pc' = [pc EXCEPT ![t] = "return"]
               /\ UNCHANGED idx
          ELSE /\ result' = [result EXCEPT ![t].matches =
                                IF score > SemanticThreshold
                                THEN Append(@, PrincipleMatch(p.id, score, "semantic"))
                                ELSE @]
               /\ idx' = [idx EXCEPT ![t] = @ + 1]
               /\ pc' = [pc EXCEPT ![t] = "score_loop"]
    /\ UNCHANGED <<engine_vars, op, situation, batch, ran_setup, etext, eret, evec, log, sit_vec,
                   alog, report>>

\* the DecisionResult evaluate builds from the semantic matches
DecisionResult(s, matches) ==
    LET keyword_matches == KeywordMatch(s, principles)
        final_matches == Combine(matches, keyword_matches)
        applicable == Truncate(final_matches)
        triggered_sops == get_applicable_sops(s)
    IN [status |-> "ok", matches |-> matches, keyword_matches |-> keyword_matches,
        final_matches |-> final_matches,
        applicable_principles |-> applicable,
        triggered_sops |-> triggered_sops,
        value_alignment |-> calculate_alignment(applicable),
        confidence |-> calculate_confidence(applicable, triggered_sops),
        recommendation |-> generate_recommendation(applicable, triggered_sops),
        matching_metadata |-> MatchingMetadata]

\* evaluate after the semantic match: keyword match, aggregation, the result
evaluate_combine(t) ==
    /\ pc[t] = "combine"
    /\ result' = [result EXCEPT ![t] = DecisionResult(situation[t], result[t].matches)]
    /\ pc' = [pc EXCEPT ![t] = "return"]
    /\ UNCHANGED <<engine_vars, op, situation, batch, idx, ran_setup, etext, eret, evec, log, sit_vec,
                   alog, report>>

\* evaluate returns (or its exception reaches the caller)
evaluate_return(t) ==
    /\ pc[t] = "return"
    /\ op[t] = "evaluate"
    /\ pc' = [pc EXCEPT ![t] = "idle"]
    /\ Locals(t)
    /\ UNCHANGED <<engine_vars, op, situation, batch, result, report>>

\* the lists of texts embed_batch is called with: "zz", a text that is neither
\* a principle's nor a situation's, alone and followed by "due"
Batches == {<< <<"z", "z">> >>, << <<"z", "z">>, S1.description >>}

\* EmbeddingService.embed_batch(texts) is called
embed_batch(t) ==
    \E texts \in Batches :
        /\ pc[t] = "idle"
        /\ calls < MaxCalls
        /\ calls' = calls + 1
        /\ op' = [op EXCEPT ![t] = "embed_batch"]
        /\ batch' = [batch EXCEPT ![t] = [texts |-> texts, vectors |-> <<>>]]
        /\ pc' = [pc EXCEPT ![t] = "batch_loop"]
        /\ result' = [result EXCEPT ![t] = NoResult]
        /\ report' = [report EXCEPT ![t] = NoReport]
        /\ Locals(t)
        /\ UNCHANGED <<api_key, ds_key, cache, principle_embeddings, embeds, faults,
                       budget, situation>>

\* embed_batch: `[self.embed_text(t) for t in texts]`, up to the call of
\* embed_text for the next text
batch_loop(t) ==
    /\ pc[t] = "batch_loop"
    /\ IF Len(batch[t].vectors) = Len(batch[t].texts)
       THEN /\ pc' = [pc EXCEPT ![t] = "batch_return"]
            /\ UNCHANGED <<etext, eret>>
       ELSE /\ pc' = [pc EXCEPT ![t] = "embed"]
            /\ etext' = [etext EXCEPT ![t] = batch[t].texts[Len(batch[t].vectors) + 1]]
            /\ eret' = [eret EXCEPT ![t] = "batch"]
    /\ UNCHANGED <<engine_vars, op, situation, batch, idx, ran_setup, evec, log, sit_vec,
                   result, alog, report>>

\* embed_batch returns the list it built
batch_return(t) ==
    /\ pc[t] = "batch_return"
    /\ pc' = [pc EXCEPT ![t] = "idle"]
    /\ Locals(t)
    /\ UNCHANGED <<engine_vars, op, situation, batch, result, report>>

\* the steps of evaluate, whoever called it
EvaluateStep(t) ==
    \/ run_embedding_setup(t)
    \/ setup_loop(t)
    \/ embed_text(t)
    \/ embed_with_gemini(t)
    \/ embed_with_deepseek(t)
    \/ embed_return(t)
    \/ match_after_setup(t)
    \/ match_score(t)
    \/ score_loop(t)
    \/ score_read(t)
    \/ evaluate_combine(t)

\* one thread calling evaluate and embed_batch again and again
Next ==
    /\ \/ evaluate(1) \/ EvaluateStep(1) \/ evaluate_return(1)
       \/ embed_batch(1) \/ batch_loop(1) \/ batch_return(1)
    /\ UNCHANGED history_vars

Spec == Init /\ [][Next]_vars

\* two threads sharing the one engine: each calls evaluate, or is a worker of
\* the streaming endpoint, which fails before it enters evaluate
NextConcurrent ==
    /\ \E t \in Threads :
          analysis_generator(t) \/ evaluate(t) \/ EvaluateStep(t) \/ evaluate_return(t)
    /\ UNCHANGED history_vars

\* the concurrent runs: Gemini configured, no DeepSeek key
InitConcurrent == Construct({TRUE}, {""}, MaxFaultsConcurrent)

SpecConcurrent == InitConcurrent /\ [][NextConcurrent]_vars

\* the cache after _run_embedding_setup embedded the principles ps with one provider
CacheAfter(provider, ps) ==
    [text \in {PrincipleText(ps[i]) : i \in 1..Len(ps)} |->
        ProviderPayload(provider, text, "ok")]

\* the map after _run_embedding_setup embedded the principles ps with one provider
EmbeddingsAfter(provider, ps) ==
    [id \in {ps[i].id : i \in 1..Len(ps)} |->
        ProviderPayload(provider, PrincipleText(PrincipleById(id)), "ok")]

\* the process when a ranking is compared with the next one: newly constructed,
\* or after an earlier evaluate whose setup embedded all the principles, or only
\* the first of them, with Gemini
InitRanking ==
    /\ \E ps \in {<<>>, SubSeq(principles, 1, 1), principles} :
          /\ cache = CacheAfter("gemini", ps)
          /\ principle_embeddings = EmbeddingsAfter("gemini", ps)
          /\ embeds = [text \in DOMAIN CacheAfter("gemini", ps) |-> 1]
    /\ api_key = TRUE
    /\ ds_key \in {"", "key"}
    /\ budget = MaxFaults
    /\ start = <<>>
    /\ past = NoPast
    /\ Parked("idle", "none", {NoReport})

\* one thread calling evaluate again and again; each call is remembered when it
\* returns, to be compared with the next
NextRanking ==
    \/ evaluate(1) /\ start' = cache /\ UNCHANGED past
    \/ EvaluateStep(1) /\ UNCHANGED history_vars
    \/ /\ evaluate_return(1)
       /\ past' = [set |-> TRUE, situation |-> situation[1], start |-> start,
                   cache |-> cache, result |-> result[1]]
       /\ UNCHANGED start

SpecRanking == InitRanking /\ [][NextRanking]_vars


(***************************************************************************)
(* HistoricalAnalyzer                                                      *)
(***************************************************************************)
HistoricalSituation(s, actual_decision, actual_outcome) ==
    [id |-> s.id, description |-> s.description, context |-> s.context,
     actual_decision |-> actual_decision, actual_outcome |-> actual_outcome]

\* "due": decided "plan work", outcome "ok"
H1 == HistoricalSituation(S1, <<"p", "l", "a", "n", " ", "w", "o", "r", "k">>, <<"o", "k">>)
\* "Plan team work help calm": decided "calm", outcome "a Loss"
H2 == HistoricalSituation(S2, <<"c", "a", "l", "m">>, <<"a", " ", "L", "o", "s", "s">>)
\* "x": decided "x", outcome "Fail"
H3 == HistoricalSituation(S4, <<"x">>, <<"F", "a", "i", "l">>)

Historicals == {H1, H2, H3}

Gap(gap_type, description, severity) ==
    [gap_type |-> gap_type, description |-> description, severity |-> severity]

Lesson(principle_id, insight) == [principle_id |-> principle_id, insight |-> insight]

\* the field constraint left out
ValidGap_Any(g) == TRUE

\* Gap's field constraint: severity: int = Field(ge=1, le=10)
ValidGap(g) == g.severity >= 1 /\ g.severity <= 10

\* A reply text is a sequence of tokens: a code fence ```, the language tag json,
\* white space, or one JSON value (an object with gaps and lessons, an array,
\* or text that is no JSON).
Token(kind) == [kind |-> kind, gaps |-> <<>>, lessons |-> <<>>]
Object(gaps, lessons) == [kind |-> "object", gaps |-> gaps, lessons |-> lessons]

GoodObject ==
    Object(<<Gap("wrong_priority", "d", 4), Gap("missed_principle", "d", 10)>>,
           <<Lesson(0, "i")>>)
BadSeverityObject == Object(<<Gap("wrong_priority", "d", 12)>>, <<Lesson(0, "i")>>)
\* valid gaps whose severities add up to more than 20
HeavyObject ==
    Object(<<Gap("a", "d", 10), Gap("b", "d", 10), Gap("c", "d", 4)>>, <<>>)

LLMReplies ==
    { <<GoodObject>>,
      <<Token("fence"), Token("json"), Token("ws"), GoodObject, Token("ws"), Token("fence")>>,
      <<Token("fence"), Token("ws"), GoodObject, Token("ws"), Token("fence")>>,
      <<Token("ws"), Object(<<>>, <<>>), Token("ws")>>,
      <<BadSeverityObject>>,
      <<HeavyObject>>,
      <<Token("array")>>,
      <<Token("garbage")>> }

\* what one exchange with a reasoning provider gives: an error (transport, HTTP
\* status, a body without the expected keys) or a reply text
LLMResponses ==
    {[error |-> TRUE, text |-> <<>>]} \cup {[error |-> FALSE, text |-> r] : r \in LLMReplies}

\* str.strip()
RECURSIVE StripLeft(_)
StripLeft(text) ==
    IF text # <<>> /\ Head(text).kind = "ws" THEN StripLeft(Tail(text)) ELSE text
RECURSIVE StripRight(_)
StripRight(text) ==
    IF text # <<>> /\ text[Len(text)].kind = "ws"
    THEN StripRight(SubSeq(text, 1, Len(text) - 1)) ELSE text
Strip(text) == StripRight(StripLeft(text))

ParseFailure == [ok |-> FALSE, gaps |-> <<>>, lessons |-> <<>>]

\* _parse_llm_json: the fences are cut, json.loads reads what is left, and the
\* Gap and Lesson models validate it; any exception is a failure
parse_llm_json(text) ==
    LET stripped == Strip(text)
        opened == IF Len(stripped) >= 2 /\ stripped[1].kind = "fence"
                     /\ stripped[2].kind = "json"
                  THEN SubSeq(stripped, 3, Len(stripped)) ELSE stripped
        clean_text == IF opened # <<>> /\ opened[Len(opened)].kind = "fence"
                      THEN SubSeq(opened, 1, Len(opened) - 1) ELSE opened
        body == Strip(clean_text)
    IN IF Len(body) # 1 \/ body[1].kind \notin {"object", "array"} THEN ParseFailure
       ELSE IF body[1].kind = "array" THEN ParseFailure
       ELSE IF \E i \in 1..Len(body[1].gaps) : ~ValidGap(body[1].gaps[i]) THEN ParseFailure
       ELSE [ok |-> TRUE, gaps |-> body[1].gaps, lessons |-> body[1].lessons]

negative_outcomes ==
    << <<"r", "e", "g", "r", "e", "t">>, <<"f", "a", "i", "l">>, <<"b", "a", "d">>,
       <<"l", "o", "s", "s">>, <<"e", "r", "r", "o", "r">>, <<"p", "o", "o", "r">>,
       <<"w", "o", "r", "s", "e">> >>

\* half of the tags missing taken as enough
MissedPrinciple_HalfOrMore(p, actual_text) ==
    /\ ~Contains(actual_text, Lower(p.title))
    /\ LET missing_tags == Filter(p.tags, LAMBDA tg : ~Contains(actual_text, Lower(tg)))
       IN 2 * Len(missing_tags) >= Len(p.tags)

\* the test of _analyze_heuristically on one recommended principle
MissedPrinciple(p, actual_text) ==
    /\ ~Contains(actual_text, Lower(p.title))
    /\ LET missing_tags == Filter(p.tags, LAMBDA tg : ~Contains(actual_text, Lower(tg)))
       IN 2 * Len(missing_tags) > Len(p.tags)

RECURSIVE MissedCollect(_, _)
MissedCollect(ms, actual_text) ==
    IF ms = <<>> THEN <<>>
    ELSE (IF MissedPrinciple(PrincipleById(Head(ms).principle), actual_text)
          THEN <<Head(ms).principle>> ELSE <<>>)
         \o MissedCollect(Tail(ms), actual_text)

\* the blindspot emitted whatever gaps were found before it
analyze_heuristically_AnyBlindspot(historical, recommended) ==
    LET actual_text == Lower(historical.actual_decision)
        missed == MissedCollect(recommended.applicable_principles, actual_text)
        blindspot == \E i \in 1..Len(negative_outcomes) :
                        Contains(Lower(historical.actual_outcome), negative_outcomes[i])
    IN [gaps |-> [i \in 1..Len(missed) |-> Gap("missed_principle", missed[i], 7)]
                 \o (IF blindspot THEN <<Gap("bad_outcome_blindspot", 0, 5)>> ELSE <<>>),
        lessons |-> [i \in 1..Len(missed) |-> Lesson(missed[i], "incorporate")]
                 \o (IF blindspot THEN <<Lesson(0, "reflect")>> ELSE <<>>)]

\* _analyze_heuristically
analyze_heuristically(historical, recommended) ==
    LET actual_text == Lower(historical.actual_decision)
        missed == MissedCollect(recommended.applicable_principles, actual_text)
        negative == \E i \in 1..Len(negative_outcomes) :
                        Contains(Lower(historical.actual_outcome), negative_outcomes[i])
        blindspot == negative /\ missed = <<>>
    IN [gaps |-> [i \in 1..Len(missed) |-> Gap("missed_principle", missed[i], 7)]
                 \o (IF blindspot THEN <<Gap("bad_outcome_blindspot", 0, 5)>> ELSE <<>>),
        lessons |-> [i \in 1..Len(missed) |-> Lesson(missed[i], "incorporate")]
                 \o (IF blindspot THEN <<Lesson(0, "reflect")>> ELSE <<>>)]

\* the score without its floor
calculate_adherence_score_Unclamped(gaps) ==
    IF gaps = <<>> THEN 1000
    ELSE 1000 - SumSeq([i \in 1..Len(gaps) |-> gaps[i].severity]) * 50

\* _calculate_adherence_score, in thousandths
calculate_adherence_score(gaps) ==
    IF gaps = <<>> THEN 1000
    ELSE LET total_severity == SumSeq([i \in 1..Len(gaps) |-> gaps[i].severity])
             score == Max(0, 1000 - total_severity * 50)
         IN Round2(score, FALSE)

\* HistoricalAnalyzer.analyze(historical) is called
analyze(t) == \E h \in Historicals : Begin(t, "analyze", h)

\* analyze: what_would_principles_say returned, or its exception leaves analyze
analyze_recommended(t) ==
    /\ pc[t] = "return"
    /\ op[t] = "analyze"
    /\ IF result[t].status = "raised"
       THEN /\ report' = [report EXCEPT ![t].status = "raised"]
            /\ pc' = [pc EXCEPT ![t] = "analyze_return"]
       ELSE /\ pc' = [pc EXCEPT ![t] = "analyze_gemini"]
            /\ UNCHANGED report
    /\ UNCHANGED <<engine_vars, op, situation, batch, idx, ran_setup, etext, eret, evec, log, sit_vec,
                   result, alog>>

\* the entry of the chain's history for one link, with the reply text it read
Link(name, called, ok, text) ==
    [link |-> name, called |-> called, ok |-> ok, text |-> text]

\* one reasoning provider: without its credential it raises before any exchange;
\* otherwise one exchange, and the reply is parsed
TryProvider(t, name, configured, on_failure) ==
    IF ~configured
    THEN /\ alog' = [alog EXCEPT ![t] = Append(@, Link(name, FALSE, FALSE, <<>>))]
         /\ pc' = [pc EXCEPT ![t] = on_failure]
         /\ UNCHANGED report
    ELSE \E r \in LLMResponses :
           LET parsed == IF r.error THEN ParseFailure ELSE parse_llm_json(r.text)
           IN /\ alog' = [alog EXCEPT ![t] = Append(@, Link(name, TRUE, parsed.ok, r.text))]
              /\ IF parsed.ok
                 THEN /\ report' = [report EXCEPT ![t].gaps = parsed.gaps,
                                                  ![t].lessons = parsed.lessons]
                      /\ pc' = [pc EXCEPT ![t] = "analyze_score"]
                 ELSE /\ pc' = [pc EXCEPT ![t] = on_failure]
                      /\ UNCHANGED report

\* the inner try left out: a Gemini failure goes straight to the heuristic
AfterGeminiFailure_SkipDeepseek == "analyze_heuristic"

\* where analyze goes when _analyze_with_gemini raised
AfterGeminiFailure == "analyze_deepseek"

\* _analyze_with_gemini, inside analyze's outer try
analyze_with_gemini(t) ==
    /\ pc[t] = "analyze_gemini"
    /\ TryProvider(t, "gemini", api_key, AfterGeminiFailure)
    /\ UNCHANGED <<engine_vars, op, situation, batch, idx, ran_setup, etext, eret, evec, log, sit_vec,
                   result>>

\* _analyze_with_deepseek, inside analyze's inner try
analyze_with_deepseek(t) ==
    /\ pc[t] = "analyze_deepseek"
    /\ TryProvider(t, "deepseek", ds_key \notin {"", "PLACEHOLDER"}, "analyze_heuristic")
    /\ UNCHANGED <<engine_vars, op, situation, batch, idx, ran_setup, etext, eret, evec, log, sit_vec,
                   result>>

\* analyze: the fallback to _analyze_heuristically
analyze_fallback(t) ==
    /\ pc[t] = "analyze_heuristic"
    /\ LET h == analyze_heuristically(situation[t], result[t])
       IN report' = [report EXCEPT ![t].gaps = h.gaps, ![t].lessons = h.lessons]
    /\ alog' = [alog EXCEPT ![t] = Append(@, Link("heuristic", FALSE, TRUE, <<>>))]
    /\ pc' = [pc EXCEPT ![t] = "analyze_score"]
    /\ UNCHANGED <<engine_vars, op, situation, batch, idx, ran_setup, etext, eret, evec, log, sit_vec,
                   result>>

\* analyze: the adherence score and the AnalysisReport
analyze_score(t) ==
    /\ pc[t] = "analyze_score"
    /\ report' = [report EXCEPT ![t].status = "ok",
                                ![t].principle_adherence_score =
                                    calculate_adherence_score(report[t].gaps)]
    /\ pc' = [pc EXCEPT ![t] = "analyze_return"]
    /\ UNCHANGED <<engine_vars, op, situation, batch, idx, ran_setup, etext, eret, evec, log, sit_vec,
                   result, alog>>

\* analyze returns (or its exception reaches the caller)
analyze_return(t) ==
    /\ pc[t] = "analyze_return"
    /\ pc' = [pc EXCEPT ![t] = "idle"]
    /\ Locals(t)
    /\ UNCHANGED <<engine_vars, op, situation, batch, result, report>>

AnalyzeStep(t) ==
    \/ analyze_recommended(t)
    \/ analyze_with_gemini(t)
    \/ analyze_with_deepseek(t)
    \/ analyze_fallback(t)
    \/ analyze_score(t)
    \/ analyze_return(t)

\* one thread calling analyze again and again
InitAnalyze == Construct(BOOLEAN, {"", "PLACEHOLDER", "key"}, MaxFaultsAnalyze)

NextAnalyze ==
    /\ analyze(1) \/ EvaluateStep(1) \/ AnalyzeStep(1)
    /\ UNCHANGED history_vars

SpecAnalyze == InitAnalyze /\ [][NextAnalyze]_vars

\* the scored requests: Gemini configured or not, no DeepSeek key
InitScoring == Construct(BOOLEAN, {""}, MaxFaultsScoring)

NextScoring ==
    /\ analyze_situation(1) \/ evaluate(1) \/ EvaluateStep(1) \/ evaluate_return(1)
    /\ UNCHANGED history_vars

SpecScoring == InitScoring /\ [][NextScoring]_vars

\* the attributes DecisionEngine.__init__ sets on the engine
DecisionEngineAttributes ==
    {"kb", "keyword_strategy", "embedding_service", "semantic_strategy"}

\* DecisionEngine.get_applicable_principles(situation): the one statement is
\* `return self.matcher.match(situation, self.kb.principles)`, and reading an
\* attribute the object does not have raises AttributeError
get_applicable_principles(t) ==
    \E s \in Situations :
        /\ pc[t] = "idle"
        /\ calls < MaxCalls
        /\ calls' = calls + 1
        /\ op' = [op EXCEPT ![t] = "get_applicable_principles"]
        /\ situation' = [situation EXCEPT ![t] = s]
        /\ result' = [result EXCEPT ![t] =
                         IF "matcher" \in DecisionEngineAttributes
                         THEN [NoResult EXCEPT !.status = "ok"]
                         ELSE [NoResult EXCEPT !.status = "raised"]]
        /\ UNCHANGED <<api_key, ds_key, cache, principle_embeddings, embeds, faults,
                       budget, pc, batch, idx, ran_setup, etext, eret, evec, log,
                       sit_vec, alog, report>>

\* the engine's two public queries, called in any order
NextQueries ==
    /\ \/ analysis_generator(1) \/ analyze_situation(1) \/ get_applicable_principles(1)
       \/ EvaluateStep(1) \/ evaluate_return(1)
    /\ UNCHANGED history_vars

SpecQueries == InitScoring /\ [][NextQueries]_vars

\* the severities of the gaps handed to _calculate_adherence_score on its own;
\* 12 is a severity assigned to a Gap after its construction
Severities == {1, 4, 10, 12}

GapLists ==
    UNION {[1..n -> {Gap("g", "d", severity) : severity \in Severities}] : n \in 0..MaxGaps}

\* _calculate_adherence_score applied to a list of gaps, as analyze applies it
InitAdherence ==
    /\ api_key = FALSE
    /\ ds_key = ""
    /\ budget = 0
    /\ cache = <<>>
    /\ principle_embeddings = <<>>
    /\ start = <<>>
    /\ past = NoPast
    /\ embeds = <<>>
    /\ Parked("analyze_score", "analyze",
              {[NoReport EXCEPT !.gaps = gaps] : gaps \in GapLists})

NextAdherence ==
    /\ analyze_score(1) \/ analyze_return(1)
    /\ UNCHANGED history_vars

SpecAdherence == InitAdherence /\ [][NextAdherence]_vars


(***************************************************************************)
(* Properties.                                                             *)
(***************************************************************************)
\* thread t is inside embed_text
InEmbed(t) == pc[t] \in {"gemini", "deepseek", "embed_return"}

\* thread t is inside the loop of _run_embedding_setup
InSetup(t) ==
    \/ pc[t] = "setup_loop" /\ idx[t] <= Len(principles)
    \/ pc[t] \in {"embed", "gemini", "deepseek", "embed_return"} /\ eret[t] = "setup"

\* evaluate has built its result and is about to return it
Returned(t) == pc[t] = "return" /\ result[t].status = "ok"

ScoreOf(ms, id) == ms[IndexOf(ms, id)].relevance_score

\* C1: evaluate never raises for a valid Situation, whatever the embedding
\* providers do; and when no provider ever returned a payload (every embed of
\* every text failed), the semantic matches are empty and the applicable
\* principles are exactly the first (at most 3) lexical matches.
C1_EvaluateNeverRaises ==
    \A t \in Threads :
        /\ result[t].status # "raised"
        /\ (Returned(t) /\ cache = <<>>) =>
              /\ result[t].matches = <<>>
              /\ result[t].applicable_principles =
                    SubSeq(KeywordMatch(situation[t], principles), 1,
                           Min(3, Len(KeywordMatch(situation[t], principles))))

\* the part of C1 that holds: the lexical-only degraded path
C1_LexicalOnlyPath ==
    \A t \in Threads :
        (Returned(t) /\ cache = <<>>) =>
            /\ result[t].matches = <<>>
            /\ result[t].applicable_principles =
                  SubSeq(KeywordMatch(situation[t], principles), 1,
                         Min(3, Len(KeywordMatch(situation[t], principles))))

\* C2: analyze never raises for a valid HistoricalSituation; and when both
\* reasoning providers failed, the report's gaps and lessons are exactly those
\* of the local keyword heuristic.
C2_AnalyzeNeverRaises ==
    \A t \in Threads :
        /\ report[t].status # "raised"
        /\ (report[t].status = "ok" /\ Len(alog[t]) >= 2 /\ ~alog[t][1].ok /\ ~alog[t][2].ok) =>
              LET h == analyze_heuristically(situation[t], result[t])
              IN report[t].gaps = h.gaps /\ report[t].lessons = h.lessons

\* C3: within one embed_text call that missed the cache, Gemini is asked at most
\* once and first; DeepSeek is asked at most once, and only when Gemini was not
\* configured or its exchange gave no payload; when every exchange made gave no
\* payload (or none could be made), embed_text returns None.
C3_EmbedChainOrder ==
    \A t \in Threads :
        LET l == log[t] IN
        /\ Len(l) <= 2
        /\ Len(l) >= 1 => l[1].provider = (IF api_key THEN "gemini" ELSE "deepseek")
        /\ Len(l) = 2 => /\ l[1].provider = "gemini" /\ l[1].response = "error"
                         /\ l[2].provider = "deepseek"
        /\ \A i \in 1..Len(l) : l[i].provider = "deepseek" => ds_key # ""
        /\ (pc[t] = "embed_return" /\ etext[t] \notin DOMAIN cache) =>
               /\ evec[t] = None
               /\ \A i \in 1..Len(l) : l[i].response = "error"
               /\ api_key => (Len(l) >= 1 /\ l[1].provider = "gemini")
               /\ ds_key # "" => (Len(l) >= 1 /\ l[Len(l)].provider = "deepseek")

\* C3's case: both backends were asked, both failed, and embed_text returns None
C3_Witness ==
    \E t \in Threads :
        /\ pc[t] = "embed_return" /\ Len(log[t]) = 2
        /\ log[t][1].response = "error" /\ log[t][2].response = "error"
        /\ evec[t] = None

\* C4 as claimed: the second and every later embed_text call with one text
\* makes no exchange with a backend.
C4_RepeatedEmbedNoExchange ==
    \A t \in Threads :
        (InEmbed(t) /\ Count(embeds, etext[t]) >= 2) => log[t] = <<>>

\* C4 as amended: no exchange is made for a text the cache holds, so every
\* embed_text call after one that succeeded is a cache hit.
C4_CachedTextNoExchange ==
    \A t \in Threads :
        /\ pc[t] = "gemini" => etext[t] \notin DOMAIN cache
        /\ (pc[t] = "deepseek" /\ ds_key # "") => etext[t] \notin DOMAIN cache
        /\ (pc[t] = "embed_return" /\ log[t] = <<>> /\ etext[t] \in DOMAIN cache) =>
               evec[t] = cache[etext[t]]

\* C4's case: a text embedded a second time is answered from the cache
C4_Witness ==
    \E t \in Threads :
        /\ pc[t] = "embed_return" /\ Count(embeds, etext[t]) >= 2
        /\ etext[t] \in DOMAIN cache /\ log[t] = <<>> /\ evec[t].v # <<>>

\* C5: in one analyze call the chain runs its links in the order Gemini,
\* DeepSeek, heuristic, each at most once and each only after the one before
\* failed; a provider without its credential is not asked; a failed link never
\* makes analyze raise; the report carries the heuristic's gaps exactly when
\* the heuristic ran.
C5_ReasoningChainOrder ==
    \A t \in Threads :
        LET l == alog[t]
            order == <<"gemini", "deepseek", "heuristic">>
        IN /\ Len(l) <= 3
           /\ \A i \in 1..Len(l) : l[i].link = order[i]
           /\ \A i \in 2..Len(l) : ~l[i - 1].ok
           /\ \A i \in 1..Len(l) :
                 /\ (l[i].link = "gemini" /\ l[i].called) => api_key
                 /\ (l[i].link = "deepseek" /\ l[i].called) => ds_key = "key"
           /\ l # <<>> => report[t].status # "raised"
           /\ (pc[t] = "analyze_score" /\ l # <<>>) => l[Len(l)].ok
           /\ (pc[t] = "analyze_heuristic") => (Len(l) = 2 /\ ~l[1].ok /\ ~l[2].ok)
           /\ (report[t].status = "ok" /\ Len(l) = 3) =>
                 report[t].gaps = analyze_heuristically(situation[t], result[t]).gaps

\* C5's case: both providers were asked, both replies failed, the heuristic ran
C5_Witness ==
    \E t \in Threads :
        /\ report[t].status = "ok" /\ Len(alog[t]) = 3
        /\ alog[t][1].called /\ alog[t][2].called
        /\ report[t].gaps # <<>>

\* C6: with two evaluate calls running at once, no call that skipped the setup
\* scores the situation against the principle-embedding map while the other
\* call is still filling it.
C6_NoPartialMapObserved ==
    \A t, u \in Threads :
        (t # u /\ pc[t] \in {"score", "score_loop", "score_read"} /\ ~ran_setup[t]) => ~InSetup(u)

\* C7 as claimed: each principle's text is sent to embed_text at most once in
\* the life of the process.
C7_PrincipleTextSentOnce ==
    \A i \in 1..Len(principles) : Count(embeds, PrincipleText(principles[i])) <= 1

\* C7 as amended: once the map holds a vector and no setup is under way, no
\* setup begins and no principle's text is sent to embed_text again: later
\* match calls skip the setup.
C7_SetupSkippedOncePopulated ==
    [][ (principle_embeddings # <<>> /\ \A t \in Threads : ~InSetup(t)) =>
            /\ \A t \in Threads : ~InSetup(t)'
            /\ \A i \in 1..Len(principles) :
                  Count(embeds', PrincipleText(principles[i]))
                      = Count(embeds, PrincipleText(principles[i])) ]_vars

\* C7's case: a second match call found the map populated and skipped the setup
C7_Witness ==
    \E t \in Threads :
        /\ calls = 2 /\ Returned(t) /\ ~ran_setup[t]
        /\ principle_embeddings # <<>>
        /\ \A i \in 1..Len(principles) : Count(embeds, PrincipleText(principles[i])) = 1

\* C8 as claimed: when the embedding of some principle failed, or the embedding
\* of the situation failed, the semantic match list is empty.
C8_AnyEmbedFailureGivesEmpty ==
    \A t \in Threads :
        (Returned(t) /\ (PrincipleIds # DOMAIN principle_embeddings \/ sit_vec[t].v = <<>>))
            => result[t].matches = <<>>

\* C8 as amended: when no principle could be embedded, or the situation could
\* not be embedded, match returns an empty list and does not raise.
C8_NoEmbeddingGivesEmpty ==
    \A t \in Threads :
        (pc[t] \in {"combine", "return"}
            /\ (principle_embeddings = <<>> \/ sit_vec[t].v = <<>>))
            => (result[t].matches = <<>> /\ result[t].status # "raised")

\* C8's case: the principles were embedded, the situation was not
C8_Witness ==
    \E t \in Threads :
        /\ pc[t] = "combine" /\ principle_embeddings # <<>> /\ sit_vec[t].v = <<>>
        /\ Len(log[t]) >= 1
        /\ result[t].matches = <<>>

\* C9: the list of applicable principles evaluate returns has at most 3 entries.
C9_AtMostThree ==
    \A t \in Threads : Len(result[t].applicable_principles) <= 3

\* C9's case: four principles were merged and three were kept
C9_Witness ==
    \E t \in Threads :
        /\ Returned(t) /\ Len(result[t].final_matches) = 4
        /\ Len(result[t].applicable_principles) = 3

\* C10: in the merged list, a principle scored by both matchers has the larger
\* of its two scores, a principle scored by one matcher has that score, and no
\* other principle appears.
C10_MergedScoreIsMax ==
    \A t \in Threads :
        Returned(t) =>
            \A id \in PrincipleIds :
                LET sem == result[t].matches
                    kw == result[t].keyword_matches
                    fin == result[t].final_matches
                IN /\ HasId(fin, id) <=> (HasId(sem, id) \/ HasId(kw, id))
                   /\ (HasId(sem, id) /\ HasId(kw, id)) =>
                          ScoreOf(fin, id) = Max(ScoreOf(sem, id), ScoreOf(kw, id))
                   /\ (HasId(sem, id) /\ ~HasId(kw, id)) => ScoreOf(fin, id) = ScoreOf(sem, id)
                   /\ (~HasId(sem, id) /\ HasId(kw, id)) => ScoreOf(fin, id) = ScoreOf(kw, id)

\* C10's case: one principle's lexical score beats its semantic score, and
\* another principle's semantic score beats its lexical score
C10_Witness ==
    \E t \in Threads :
        /\ Returned(t)
        /\ \E a, b \in PrincipleIds :
              LET sem == result[t].matches
                  kw == result[t].keyword_matches
              IN /\ HasId(sem, a) /\ HasId(kw, a) /\ ScoreOf(kw, a) > ScoreOf(sem, a)
                 /\ HasId(sem, b) /\ HasId(kw, b) /\ ScoreOf(sem, b) > ScoreOf(kw, b)


\* C11 as claimed: two evaluate calls with the same situation that start from
\* the same cache state return the same ranked list with the same scores.
C11_SameStartSameRanking ==
    (pc[1] = "return" /\ past.set /\ past.situation = situation[1] /\ past.start = start)
        => result[1] = past.result

\* C11 as amended: two evaluate calls with the same situation that return with
\* the same cache state return the same ranked list with the same scores.
C11_SameCacheSameRanking ==
    (pc[1] = "return" /\ past.set /\ past.situation = situation[1] /\ past.cache = cache)
        => result[1] = past.result

\* C11's case: a second call with the same situation ends with the same cache
\* and ranks a semantic match first or among the first
C11_Witness ==
    /\ pc[1] = "return" /\ past.set /\ past.situation = situation[1]
    /\ past.cache = cache /\ situation[1].description \in DOMAIN cache
    /\ result[1].status = "ok" /\ result[1].matches # <<>>
    /\ result[1].final_matches = past.result.final_matches

\* C12: in every DecisionResult evaluate returns, each relevance_score, the
\* confidence and the alignment overall_score lie in [0, 1].
C12_ScoresInUnitInterval ==
    \A t \in Threads :
        Returned(t) =>
            /\ \A i \in 1..Len(result[t].applicable_principles) :
                  /\ result[t].applicable_principles[i].relevance_score >= 0
                  /\ result[t].applicable_principles[i].relevance_score <= 1000
            /\ result[t].confidence >= 0 /\ result[t].confidence <= 1000
            /\ result[t].value_alignment.num >= 0
            /\ result[t].value_alignment.num <= 1000 * result[t].value_alignment.den

\* C12's case: several matches with a top score of 1.0, where the bonus and the
\* alignment sum would both pass 1.0 without their caps
C12_Witness ==
    \E t \in Threads :
        /\ Returned(t) /\ result[t].triggered_sops = <<>>
        /\ Len(result[t].applicable_principles) > 1
        /\ result[t].applicable_principles[1].relevance_score = 1000
        /\ result[t].confidence = 1000
        /\ result[t].value_alignment.num = 1000 * result[t].value_alignment.den

\* C13: in every AnalysisReport analyze returns, whichever link of the chain
\* produced the gaps, each Gap.severity lies in [1, 10] and the
\* principle_adherence_score lies in [0, 1].
C13_ReportInRange ==
    \A t \in Threads :
        report[t].status = "ok" =>
            /\ \A i \in 1..Len(report[t].gaps) :
                  report[t].gaps[i].severity >= 1 /\ report[t].gaps[i].severity <= 10
            /\ report[t].principle_adherence_score >= 0
            /\ report[t].principle_adherence_score <= 1000

\* C13's case: a provider's reply gave valid gaps whose severities pass 20
C13_Witness ==
    \E t \in Threads :
        /\ report[t].status = "ok" /\ Len(alog[t]) \in {1, 2}
        /\ alog[t][Len(alog[t])].ok
        /\ SumSeq([i \in 1..Len(report[t].gaps) |-> report[t].gaps[i].severity]) > 20
        /\ report[t].principle_adherence_score = 0

\* C14: the adherence score is 1.0 for no gaps and otherwise
\* max(0, 1 - 0.05 * the sum of the severities), a whole number of hundredths:
\* one gap of severity 10 gives 0.50, gaps of severity 12 and 10 give 0.00.
C14_AdherenceFormula ==
    report[1].status = "ok" =>
        LET gaps == report[1].gaps
            severity == [i \in 1..Len(gaps) |-> gaps[i].severity]
            total == SumSeq(severity)
            score == report[1].principle_adherence_score
        IN /\ gaps = <<>> => score = 1000
           /\ (gaps # <<>> /\ total * 50 <= 1000) => score = 1000 - total * 50
           /\ (gaps # <<>> /\ total * 50 > 1000) => score = 0
           /\ score % 10 = 0
           /\ severity = <<10>> => score = 500
           /\ severity = <<12, 10>> => score = 0

\* C14's case: the gaps of severity 12 and 10 were scored
C14_Witness ==
    /\ report[1].status = "ok"
    /\ [i \in 1..Len(report[1].gaps) |-> report[1].gaps[i].severity] = <<12, 10>>
    /\ report[1].principle_adherence_score = 0

\* the place of a principle in the corpus list
CorpusIndex(id) == CHOOSE i \in 1..Len(principles) : principles[i].id = id

\* how many tags of p occur in the text, and how many of its title keywords
TagCount(p, text) ==
    Cardinality({j \in 1..Len(p.tags) : Contains(text, Lower(p.tags[j]))})
KeywordCount(p, text) ==
    LET words == Split(p.title)
    IN Cardinality({j \in 1..Len(words) :
                       /\ Lower(words[j]) \notin stop_words
                       /\ Len(words[j]) > 3
                       /\ Contains(text, Lower(words[j]))})

\* no tag and no title keyword (a title word longer than three characters that
\* is no stop word) of any principle occurs in the situation's text
NoOverlap(s) ==
    LET text == Lower(get_full_description(s))
    IN \A i \in 1..Len(principles) :
          /\ TagCount(principles[i], text) = 0
          /\ KeywordCount(principles[i], text) = 0

\* C15 as claimed: a request with an empty description and no overlap with any
\* principle, with no provider answering, ends in a result with no lexical
\* match, no semantic match and a confidence of exactly 0.10.
C15_EmptyDescriptionScoresTenth ==
    \A t \in Threads :
        (pc[t] = "idle" /\ op[t] = "analyze_situation" /\ situation[t].description = <<>>
            /\ NoOverlap(situation[t]) /\ cache = <<>>)
        => /\ result[t].status = "ok"
           /\ result[t].keyword_matches = <<>> /\ result[t].matches = <<>>
           /\ result[t].confidence = 100

\* C15 as amended: for a Situation whose text has no overlap with any principle
\* and triggers no SOP, with no provider answering, the result has no lexical
\* match, no semantic match and a confidence of exactly 0.10.
C15_NoOverlapScoresTenth ==
    \A t \in Threads :
        (Returned(t) /\ NoOverlap(situation[t]) /\ cache = <<>>
            /\ ~\E i \in 1..Len(sops) :
                   check_triggers(sops[i], get_full_description(situation[t])))
        => /\ result[t].keyword_matches = <<>> /\ result[t].matches = <<>>
           /\ result[t].confidence = 100

\* C15's case: such a situation was evaluated
C15_Witness ==
    \E t \in Threads :
        /\ Returned(t) /\ NoOverlap(situation[t]) /\ cache = <<>>
        /\ situation[t].description # <<>>
        /\ result[t].triggered_sops = <<>> /\ result[t].applicable_principles = <<>>
        /\ result[t].confidence = 100

\* C16: the confidence is 0.1 with no match and no SOP; otherwise the top
\* score (0.0 without matches), raised to at least 0.8 when an SOP triggered,
\* else increased by 0.1 and capped at 1.0 when there is more than one match;
\* rounded to the nearest hundredth.
C16_ConfidenceFormula ==
    \A t \in Threads :
        Returned(t) =>
            LET ms == result[t].applicable_principles
                triggered == result[t].triggered_sops
                top == IF ms # <<>> THEN ms[1].relevance_score ELSE 0
                base == IF triggered # <<>> THEN (IF top < 800 THEN 800 ELSE top)
                        ELSE IF Len(ms) > 1 THEN (IF top + 100 > 1000 THEN 1000 ELSE top + 100)
                        ELSE top
                confidence == result[t].confidence
            IN IF ms = <<>> /\ triggered = <<>> THEN confidence = 100
               ELSE /\ confidence % 10 = 0
                    /\ confidence - base <= 5 /\ base - confidence <= 5

\* C16's case: an SOP triggered and raised a top score below 0.8
C16_Witness ==
    \E t \in Threads :
        /\ Returned(t) /\ result[t].triggered_sops # <<>>
        /\ result[t].applicable_principles # <<>>
        /\ result[t].applicable_principles[1].relevance_score < 800
        /\ result[t].confidence = 800

\* C17: the lexical score of a principle is min(1.0, T + K), T = min(0.6 + 0.1 n,
\* 0.9) for n >= 1 tags found in the lower-cased full description (else 0),
\* K = min(0.15 k, 0.5) for k title keywords found, halved when a tag matched;
\* a principle with score 0 is dropped; one tag and no keyword score 0.70.
C17_LexicalScoreFormula ==
    \A t \in Threads :
        Returned(t) =>
            \A i \in 1..Len(principles) :
                LET p == principles[i]
                    text == Lower(get_full_description(situation[t]))
                    n == TagCount(p, text)
                    k == KeywordCount(p, text)
                    T == IF n >= 1 THEN (IF 600 + 100 * n < 900 THEN 600 + 100 * n ELSE 900)
                         ELSE 0
                    weight == IF 150 * k < 500 THEN 150 * k ELSE 500
                    K == IF n >= 1 THEN weight \div 2 ELSE weight
                    score == IF T + K < 1000 THEN T + K ELSE 1000
                    found == result[t].keyword_matches
                IN /\ score = 0 => ~HasId(found, p.id)
                   /\ score > 0 => (HasId(found, p.id) /\ ScoreOf(found, p.id) = score)
                   /\ (n = 1 /\ k = 0) => ScoreOf(found, p.id) = 700

\* C17's case: a principle with exactly one tag found and no title keyword
C17_Witness ==
    \E t \in Threads :
        /\ Returned(t)
        /\ \E i \in 1..Len(principles) :
              LET text == Lower(get_full_description(situation[t]))
              IN /\ TagCount(principles[i], text) = 1
                 /\ KeywordCount(principles[i], text) = 0
                 /\ ScoreOf(result[t].keyword_matches, principles[i].id) = 700

\* C18: the lexical matches come in non-increasing score order, and matches
\* with equal scores keep the order of the corpus list.
C18_StableDescendingOrder ==
    \A t \in Threads :
        Returned(t) =>
            LET found == result[t].keyword_matches
            IN \A i, j \in 1..Len(found) :
                  i < j =>
                    /\ found[i].relevance_score >= found[j].relevance_score
                    /\ found[i].relevance_score = found[j].relevance_score =>
                          CorpusIndex(found[i].principle) < CorpusIndex(found[j].principle)

\* C18's case: two equal scores, the principle with the larger id first as in
\* the corpus list
C18_Witness ==
    \E t \in Threads :
        /\ Returned(t)
        /\ \E i, j \in 1..Len(result[t].keyword_matches) :
              LET found == result[t].keyword_matches
              IN /\ i < j /\ found[i].relevance_score = found[j].relevance_score
                 /\ found[i].principle > found[j].principle

\* C19: the vectors compared in a semantic match come from one provider (they
\* have one dimensionality): a situation vector is never scored against stored
\* principle vectors that another provider produced.
C19_ComparedVectorsShareProvider ==
    \A t \in Threads :
        (pc[t] = "combine" /\ Truthy(sit_vec[t]) /\ sit_vec[t].numeric)
        => \A id \in DOMAIN principle_embeddings :
              principle_embeddings[id].numeric =>
                  Len(principle_embeddings[id].v) = Len(sit_vec[t].v)

\* C20: the metadata of a result records the evaluation: strategies_succeeded
\* lists only the strategies that returned matches, llm_provider_used is no
\* provider when none served the semantic signal, and fallback_triggered is
\* true when the result rests on the keyword matches alone.
C20_MetadataRecordsEvaluation ==
    \A t \in Threads :
        Returned(t) =>
            LET metadata == result[t].matching_metadata
                succeeded == {metadata.strategies_succeeded[i] :
                                 i \in 1..Len(metadata.strategies_succeeded)}
            IN /\ "semantic" \in succeeded => result[t].matches # <<>>
               /\ "keyword" \in succeeded => result[t].keyword_matches # <<>>
               /\ ~Truthy(sit_vec[t]) => metadata.llm_provider_used \notin {"gemini", "deepseek"}
               /\ result[t].matches = <<>> => metadata.fallback_triggered

\* the positions of the lines of one kind in a recommendation
PartsOf(recommendation, kind) ==
    {i \in 1..Len(recommendation) : recommendation[i].kind = kind}

\* C21, first half (it holds): the recommendation enumerates at most three
\* matches, the first of the applicable principles in their rank order.
C21_TopThreeInRankOrder ==
    \A t \in Threads :
        Returned(t) =>
            LET rec == result[t].recommendation
                entries == PartsOf(rec, "principle")
                ms == result[t].applicable_principles
            IN /\ Cardinality(entries) <= 3
               /\ \A i \in entries :
                     /\ rec[i].number <= Len(ms) /\ rec[i].id = ms[rec[i].number].principle
                     /\ \A j \in entries : i < j => rec[i].number < rec[j].number

\* C21: the recommendation enumerates at most the top three matches in rank
\* order and, when an SOP is triggered, the immediate-action line naming the
\* SOPs stands before every enumerated principle entry.
C21_ImmediateActionFirst ==
    \A t \in Threads :
        (Returned(t) /\ result[t].triggered_sops # <<>>) =>
            LET rec == result[t].recommendation
            IN /\ PartsOf(rec, "immediate_action") # {}
               /\ \A i \in PartsOf(rec, "immediate_action") :
                     \A j \in PartsOf(rec, "principle") : i < j

\* the JSON values of a reply text, its fences, language tag and white space
\* taken away
Unfenced(text) == SelectSeq(text, LAMBDA k : k.kind \notin {"fence", "json", "ws"})

\* a reply that is one JSON object between an opening fence, with the language
\* tag or without it, and a closing fence
FencedObject(text) ==
    LET stripped == Strip(text)
    IN /\ Len(stripped) >= 3
       /\ stripped[1].kind = "fence" /\ stripped[Len(stripped)].kind = "fence"
       /\ \A i \in 2..(Len(stripped) - 1) : stripped[i].kind # "fence"
       /\ \A i \in 3..(Len(stripped) - 1) : stripped[i].kind # "json"
       /\ Len(Unfenced(text)) = 1 /\ Unfenced(text)[1].kind = "object"

\* C22, for the fence with the language tag (it holds): the reply is parsed to
\* the gaps and lessons of the object alone.
C22_JsonFenceIsStripped ==
    \A t \in Threads :
        \A i \in 1..Len(alog[t]) :
            LET text == alog[t][i].text
            IN (alog[t][i].called /\ FencedObject(text) /\ Strip(text)[2].kind = "json"
                   /\ parse_llm_json(Unfenced(text)).ok)
               => alog[t][i].ok

\* C22: a reply that is a schema-valid JSON object between code fences, with
\* or without a language tag, is parsed to the gaps and lessons of the object
\* without the fences.
C22_FenceIsStripped ==
    \A t \in Threads :
        \A i \in 1..Len(alog[t]) :
            LET text == alog[t][i].text
            IN (alog[t][i].called /\ FencedObject(text) /\ parse_llm_json(Unfenced(text)).ok)
               => /\ alog[t][i].ok
                  /\ (i = Len(alog[t]) /\ pc[t] = "analyze_score") =>
                        /\ report[t].gaps = parse_llm_json(Unfenced(text)).gaps
                        /\ report[t].lessons = parse_llm_json(Unfenced(text)).lessons

\* analyze took its gaps and lessons from the local heuristic
OnHeuristicPath(t) ==
    /\ pc[t] \in {"analyze_score", "analyze_return"}
    /\ alog[t] # <<>> /\ alog[t][Len(alog[t])].link = "heuristic"

\* the ranks of the applicable principles the decision text passes over: the
\* title is not in it and more than half of the tags are not in it
MissedRanks(t) ==
    LET ms == result[t].applicable_principles
        actual == Lower(situation[t].actual_decision)
    IN {i \in 1..Len(ms) :
          LET p == PrincipleById(ms[i].principle)
              absent == {j \in 1..Len(p.tags) : ~Contains(actual, Lower(p.tags[j]))}
          IN ~Contains(actual, Lower(p.title)) /\ 2 * Cardinality(absent) > Len(p.tags)}

\* the outcome text, lower-cased, holds one of the seven negative words
NegativeOutcome(t) ==
    \E w \in { <<"r", "e", "g", "r", "e", "t">>, <<"f", "a", "i", "l">>, <<"b", "a", "d">>,
                <<"l", "o", "s", "s">>, <<"e", "r", "r", "o", "r">>, <<"p", "o", "o", "r">>,
                <<"w", "o", "r", "s", "e">> } :
        Contains(Lower(situation[t].actual_outcome), w)

\* C23: the heuristic emits, in rank order, one missed_principle gap of
\* severity 7 for exactly the applicable principles whose title is absent from
\* the lower-cased decision text and more than half of whose tags are absent;
\* and one bad_outcome_blindspot gap of severity 5 exactly when it emitted no
\* gap and the outcome text holds one of the seven negative words.
C23_HeuristicGaps ==
    \A t \in Threads :
        OnHeuristicPath(t) =>
            LET gaps == report[t].gaps
                ms == result[t].applicable_principles
                missed == SelectSeq(gaps, LAMBDA g : g.gap_type = "missed_principle")
                blind == SelectSeq(gaps, LAMBDA g : g.gap_type = "bad_outcome_blindspot")
            IN /\ Len(gaps) = Len(missed) + Len(blind)
               /\ Len(missed) = Cardinality(MissedRanks(t))
               /\ \A k \in 1..Len(missed) :
                     /\ missed[k].severity = 7
                     /\ \E i \in MissedRanks(t) :
                           /\ Cardinality({j \in MissedRanks(t) : j <= i}) = k
                           /\ missed[k].description = ms[i].principle
               /\ Len(blind) = (IF MissedRanks(t) = {} /\ NegativeOutcome(t) THEN 1 ELSE 0)
               /\ \A k \in 1..Len(blind) : blind[k].severity = 5 /\ gaps = blind

\* C23's case: the heuristic ran over a principle it flags and one it does not
C23_Witness ==
    \E t \in Threads :
        /\ OnHeuristicPath(t)
        /\ MissedRanks(t) # {}
        /\ MissedRanks(t) # 1..Len(result[t].applicable_principles)
        /\ Len(report[t].gaps) = Cardinality(MissedRanks(t))

\* C30: on the heuristic path gaps and lessons have one length, the lesson of
\* a missed_principle gap carries that principle's id, and a
\* bad_outcome_blindspot gap never shares a report with a missed_principle gap.
C30_GapsPairedWithLessons ==
    \A t \in Threads :
        OnHeuristicPath(t) =>
            LET gaps == report[t].gaps
                lessons == report[t].lessons
            IN /\ Len(gaps) = Len(lessons)
               /\ \A i \in 1..Len(gaps) :
                     gaps[i].gap_type = "missed_principle" =>
                         lessons[i].principle_id = gaps[i].description
               /\ ~\E i, j \in 1..Len(gaps) :
                     /\ gaps[i].gap_type = "bad_outcome_blindspot"
                     /\ gaps[j].gap_type = "missed_principle"

\* C30's case: missed principles found for a decision with a negative outcome
C30_Witness ==
    \E t \in Threads :
        /\ OnHeuristicPath(t) /\ NegativeOutcome(t)
        /\ Len(report[t].gaps) >= 2 /\ Len(report[t].lessons) = Len(report[t].gaps)
        /\ \A i \in 1..Len(report[t].gaps) : report[t].gaps[i].gap_type = "missed_principle"

\* the value ids the principle of a match lists
ValuesOf(m) ==
    {PrincipleById(m.principle).related_value_ids[j] :
        j \in 1..Len(PrincipleById(m.principle).related_value_ids)}

\* C24: each value id's weight is the sum of the relevance scores of the matches
\* whose principle lists it; overall_score is min(total / 3.0, 1.0), total being
\* the sum of all these contributions, and 0.0 when total is 0; the weights are
\* not normalised.
C24_AlignmentFormula ==
    \A t \in Threads :
        Returned(t) =>
            LET ms == result[t].applicable_principles
                alignment == result[t].value_alignment
                Weight(v) == SumSeq([i \in 1..Len(ms) |->
                                        IF v \in ValuesOf(ms[i]) THEN ms[i].relevance_score ELSE 0])
                total == SumSeq([i \in 1..Len(ms) |->
                                    ms[i].relevance_score * Cardinality(ValuesOf(ms[i]))])
            IN /\ DOMAIN alignment.value_scores = UNION {ValuesOf(ms[i]) : i \in 1..Len(ms)}
               /\ \A v \in DOMAIN alignment.value_scores : alignment.value_scores[v] = Weight(v)
               /\ alignment.den = 3
               /\ alignment.num = (IF total = 0 THEN 0 ELSE IF total < 3000 THEN total ELSE 3000)

\* C24's case: a value id listed by two matches, its weight above 1, and an
\* overall score below 1
C24_Witness ==
    \E t \in Threads :
        /\ Returned(t)
        /\ \E v \in DOMAIN result[t].value_alignment.value_scores :
              /\ result[t].value_alignment.value_scores[v] > 1000
              /\ \E i, j \in 1..Len(result[t].applicable_principles) :
                    /\ i # j
                    /\ v \in ValuesOf(result[t].applicable_principles[i])
                    /\ v \in ValuesOf(result[t].applicable_principles[j])
        /\ result[t].value_alignment.num > 0
        /\ result[t].value_alignment.num < 1000 * result[t].value_alignment.den

\* C25: the aggregated list holds each principle id at most once, is in
\* non-increasing order of relevance_score, and no merged match left out by the
\* truncation has a strictly higher score than a match that was kept.
C25_AggregatedListRanked ==
    \A t \in Threads :
        Returned(t) =>
            LET kept == result[t].applicable_principles
                merged == result[t].final_matches
            IN /\ \A i, j \in 1..Len(kept) :
                     i < j => /\ kept[i].principle # kept[j].principle
                              /\ kept[i].relevance_score >= kept[j].relevance_score
               /\ \A i \in 1..Len(merged) :
                     (\A k \in 1..Len(kept) : kept[k].principle # merged[i].principle)
                     => \A k \in 1..Len(kept) :
                           merged[i].relevance_score <= kept[k].relevance_score

\* C25's case: four principles merged from both strategies, one of them left out
C25_Witness ==
    \E t \in Threads :
        /\ Returned(t)
        /\ result[t].matches # <<>> /\ result[t].keyword_matches # <<>>
        /\ Len(result[t].final_matches) > Len(result[t].applicable_principles)
        /\ \E i \in 1..Len(result[t].final_matches) :
              result[t].final_matches[i].relevance_score
                  < result[t].applicable_principles[1].relevance_score

\* C26: get_applicable_principles returns the matched principles for any valid
\* Situation on a freshly constructed engine; it does not end in an error.
C26_GetApplicablePrinciplesReturns ==
    \A t \in Threads :
        (/\ pc[t] = "idle" /\ op[t] = "get_applicable_principles"
         /\ Constructible({"id", "description"}, situation[t].description))
        => result[t].status = "ok"

\* the confidence of a match list when no SOP is triggered
ConfidenceWithoutSOP(ms) ==
    IF ms = <<>> THEN 100
    ELSE IF Len(ms) > 1
         THEN Round2(IF ms[1].relevance_score + 100 < 1000
                     THEN ms[1].relevance_score + 100 ELSE 1000, FALSE)
         ELSE Round2(ms[1].relevance_score, TRUE)

\* C27 as claimed: for a fixed aggregated match list, the confidence with a
\* triggered SOP is at least the confidence with no triggered SOP.
C27_SOPNeverLowersConfidence ==
    \A t \in Threads :
        (Returned(t) /\ result[t].triggered_sops # <<>>)
        => result[t].confidence >= ConfidenceWithoutSOP(result[t].applicable_principles)

\* C27 as amended: with a triggered SOP the confidence is at least 0.80, and
\* for a match list of at most one match it is at least the confidence the
\* same list has with no triggered SOP.
C27_SOPFloorsConfidence ==
    \A t \in Threads :
        (Returned(t) /\ result[t].triggered_sops # <<>>)
        => /\ result[t].confidence >= 800
           /\ Len(result[t].applicable_principles) <= 1 =>
                 result[t].confidence >= ConfidenceWithoutSOP(result[t].applicable_principles)

\* C27's case: an SOP triggered over a single match and raised its confidence
C27_Witness ==
    \E t \in Threads :
        /\ Returned(t) /\ result[t].triggered_sops # <<>>
        /\ Len(result[t].applicable_principles) = 1
        /\ result[t].confidence > ConfidenceWithoutSOP(result[t].applicable_principles)

\* thread t leaves a provider exchange in this step
AnsweredBy(t) == pc[t] \in {"gemini", "deepseek"} /\ pc'[t] # pc[t]

\* C28: the cache only takes what a provider call returned with success: a
\* failing embed leaves it unchanged and the text goes to the providers again
\* the next time; a stored entry is never changed or removed, and an embed of
\* a stored text returns the stored vector.
C28_CacheFrame ==
    [][ /\ \A text \in DOMAIN cache :
              text \in DOMAIN cache' /\ cache'[text] = cache[text]
        /\ cache' # cache =>
              \E t \in Threads :
                  /\ AnsweredBy(t) /\ evec'[t].v # <<>>
                  /\ DOMAIN cache' = DOMAIN cache \cup {etext[t]}
                  /\ cache'[etext[t]] = evec'[t]
        /\ \A t \in Threads :
              (pc[t] = "embed" /\ pc'[t] # pc[t]) =>
                  IF etext[t] \in DOMAIN cache
                  THEN pc'[t] = "embed_return" /\ evec'[t] = cache[etext[t]]
                  ELSE pc'[t] \in {"gemini", "deepseek"} ]_vars

\* C29 as claimed: once the principle-embedding map holds a vector, it is not
\* modified again.
C29_MapFrozenOnceNonEmpty ==
    [][principle_embeddings # <<>> => principle_embeddings' = principle_embeddings]_vars

\* C29 as amended: the map is only modified inside the loop of a setup run, and
\* a match call that finds a vector in the map skips the setup and leaves the
\* map as it is, so a principle without a vector is not embedded again and is
\* in no later semantic match; a match call that finds the map empty attempts
\* every principle again.
C29_MapFrozenAfterSetup ==
    /\ [](\A t \in Threads :
            /\ Returned(t) =>
                  \A i \in 1..Len(result[t].matches) :
                      result[t].matches[i].principle \in DOMAIN principle_embeddings
            /\ (pc[t] = "after_setup" /\ ran_setup[t]) =>
                  \A i \in 1..Len(principles) :
                      Count(embeds, PrincipleText(principles[i])) >= 1)
    /\ [][/\ principle_embeddings' # principle_embeddings =>
                  \E t \in Threads : InSetup(t) /\ ran_setup[t] /\ pc[t] = "embed_return"
          /\ \A t \in Threads :
                  (pc[t] = "setup" /\ pc'[t] # "setup") =>
                      IF principle_embeddings # <<>>
                      THEN /\ pc'[t] = "after_setup" /\ ~ran_setup'[t]
                           /\ principle_embeddings' = principle_embeddings
                      ELSE /\ pc'[t] = "setup_loop" /\ idx'[t] = 1 /\ ran_setup'[t] ]_vars

\* C29's case: a later call, with the providers answering again, skipped the
\* setup and ranked without the principle whose embedding had failed
C29_Witness ==
    \E t \in Threads :
        /\ calls = 2 /\ Returned(t) /\ ~ran_setup[t]
        /\ principle_embeddings # <<>> /\ DOMAIN principle_embeddings # PrincipleIds
        /\ sit_vec[t].v # <<>> /\ log[t] # <<>>
        /\ result[t].matches # <<>>

=============================================================================
